---- MODULE Spec2Model ----
(***************************************************************************)
(* Kazo Design MCP: the sketch-request rendezvous (SketchRequestManager),  *)
(* the AI tools that wait on it, the editor provider's message handling    *)
(* and the surface's askUser table, modelled from the TypeScript and       *)
(* JavaScript sources.                                                     *)
(***************************************************************************)
EXTENDS Integers, Sequences, FiniteSets, TLC

\* ------------------------------------------------------------------ bounds
\* number of requestSketch calls (promises created) in one run
MaxRequests == 3
\* number of tool invocations in one run
MaxInvokes == 2
\* number of editor panels created or revived in one run
MaxPanels == 2
\* number of messages the surfaces post to the host in one run
MaxPosts == 1
\* askUser calls of the surfaces
MaxAsks == 2
\* milliseconds Date.now() advances over a run
MaxClock == 1
\* DesignElement objects created over a run
MaxObjects == 3
\* entries of the view breadcrumb
MaxCrumbs == 2
\* elements of a document handed to GenerateSvg
MaxShapes == 2
\* loadDesign / requestExport calls made on the provider in one run
MaxHostPosts == 2

\* ------------------------------------------------------------- vocabulary
\* a field that is undefined in the JavaScript object
Undefined == "<undefined>"

\* mcpTools.ts:58
SupersessionError == "New sketch request started"
\* mcpTools.ts:84
UserCancelledError == "User cancelled the sketch"

\* the (title, prompt) pairs callers pass to requestSketch
SketchInputs == { <<"A", "p1">>, <<"B", "p2">> }

\* interface SketchResult (optional fields are Undefined when absent)
MkResult(success, title, svg, json, error) ==
    [success |-> success, title |-> title, svg |-> svg, json |-> json, error |-> error]

NoResult == MkResult(FALSE, Undefined, Undefined, Undefined, Undefined)

\* a success result that loses the title of the confirmed sketch
SuccessResultNoTitle(title, svg, json) == MkResult(TRUE, Undefined, svg, json, Undefined)

\* results a caller of completeSketch passes (handleConfirmSketch builds them)
SuccessResult(title, svg, json) == MkResult(TRUE, title, svg, json, Undefined)

CompleteInputs == { SuccessResult("A", "svgA", "jsonA"), SuccessResult("B", "svgB", "jsonB") }

\* the value cancelSketch resolves with
CancelResult == MkResult(FALSE, Undefined, Undefined, Undefined, UserCancelledError)

\* ------------------------------------------------------------------ state
VARIABLES
    pendingRequest,   \* SketchRequestManager.pendingRequest: the slot
    requests,         \* the promise each requestSketch call created
    lastCall,         \* the manager method called last, and what it found in the slot
    invs,             \* the tool invocations: position, promises, token, result
    microtasks,       \* the host's promise-reaction job queue (FIFO)
    panel,            \* KazoDesignEditorProvider.panel (0 = undefined)
    panels,           \* every webview panel created so far: "none" | "live" | "disposed"
    surface,          \* the editor surface inside each panel: booted flag and document metadata
    toHost,           \* surface -> host messages in flight (FIFO)
    toSurface,        \* host -> surface messages in flight (FIFO)
    posted,           \* number of messages the surfaces have posted
    confirms,         \* handleConfirmSketch calls suspended in one of their dialogs
    hostLog,          \* the last line written to the output channel
    notice,           \* the notification shown to the user last
    files,            \* the base paths written by a save
    lastConfirm,      \* the handleConfirmSketch call that finished last
    clock,            \* Date.now() as the surfaces read it
    asks,             \* the promise each askUser call of a surface returned
    askTable,         \* window.kazoDesign._pendingRequests of each surface: requestId -> resolver
    askHandlers,      \* handleAskUser calls suspended in their dialog
    Document,         \* DesignService.Document: metadata and the ordered elements
    SelectedElement,  \* DesignService.SelectedElement: an object reference, 0 = null
    CurrentViewContext, \* DesignService.CurrentViewContext
    ViewBreadcrumb,   \* DesignService.ViewBreadcrumb
    nextRef,          \* the next DesignElement object to be allocated
    exported,         \* the ExportResult returned last, with the document it was made from
    loadResult,       \* how the last LoadDesign call ended
    lastOp,           \* the DesignService method called last
    drawn,            \* the elements of the document handed to GenerateSvg
    svgResult,        \* what GenerateSvg returned last
    hitResult,        \* the ContainsPoint call made last, with its result
    saves,            \* handleSaveDesign calls suspended in their save dialog
    written,          \* the files handleSaveDesign has written: path and content
    lastSave,         \* the handleSaveDesign call that ended last
    hostSent,         \* number of loadDesign / requestExport calls made on the provider
    pageLoads,        \* kazoDesign.loadDesign calls made in each panel's page
    pageExports       \* kazoDesign.exportDesign promises of each page whose then-callback has not run

mgrVars == <<pendingRequest, requests, lastCall>>
toolVars == <<invs, microtasks>>
panelVars == <<panel, panels, surface>>
channelVars == <<toHost, toSurface, posted>>
handlerVars == <<confirms, hostLog, notice, files>>
hostVars == <<toolVars, panelVars, channelVars, handlerVars>>
askVars == <<clock, asks, askTable, askHandlers>>
designVars == <<Document, SelectedElement, CurrentViewContext, ViewBreadcrumb, nextRef, exported, loadResult, lastOp>>
shapeVars == <<drawn, svgResult, hitResult>>
saveVars == <<saves, written, lastSave>>
viewVars == <<hostSent, pageLoads, pageExports>>
vars == <<mgrVars, hostVars, lastConfirm, askVars, designVars, shapeVars, saveVars, viewVars>>

RequestIds == 1..MaxRequests

\* the empty slot (pendingRequest = null)
NoRequest == [id |-> 0, title |-> "", prompt |-> ""]

\* a promise that has not been created yet
UnusedPromise == [state |-> "unused", value |-> NoResult, reason |-> "", settles |-> 0]
FreshPromise == [state |-> "pending", value |-> NoResult, reason |-> "", settles |-> 0]

\* resolve(value) on a promise: the first settlement wins, later calls are ignored
ResolvePromise(p, value) ==
    IF p.state = "pending"
    THEN [p EXCEPT !.state = "resolved", !.value = value, !.settles = @ + 1]
    ELSE [p EXCEPT !.settles = @ + 1]

\* reject(error) on a promise
RejectPromise(p, reason) ==
    IF p.state = "pending"
    THEN [p EXCEPT !.state = "rejected", !.reason = reason, !.settles = @ + 1]
    ELSE [p EXCEPT !.settles = @ + 1]

\* the manager as a value: slot and promises
Manager == [pendingRequest |-> pendingRequest, requests |-> requests]

\* the id the next requestSketch call gives its promise
NextRequestId(M) == Cardinality({i \in RequestIds : M.requests[i].state # "unused"}) + 1

\* hasPendingRequest()
HasPendingRequest(M) == M.pendingRequest # NoRequest

\* getPendingRequest()
GetPendingRequest(M) ==
    IF M.pendingRequest # NoRequest
    THEN [title |-> M.pendingRequest.title, prompt |-> M.pendingRequest.prompt]
    ELSE [title |-> Undefined, prompt |-> Undefined]

\* requestSketch that overwrites the slot without rejecting the stale request
RequestSketchNoReject(M, title, prompt) ==
    LET id == NextRequestId(M)
    IN [pendingRequest |-> [id |-> id, title |-> title, prompt |-> prompt],
        requests |-> [M.requests EXCEPT ![id] = FreshPromise]]

\* requestSketch(title, prompt): reject the stale request, then install the new one
RequestSketch(M, title, prompt) ==
    LET id == NextRequestId(M)
        afterReject ==
            IF M.pendingRequest # NoRequest
            THEN [M.requests EXCEPT ![M.pendingRequest.id] = RejectPromise(@, SupersessionError)]
            ELSE M.requests
    IN [pendingRequest |-> [id |-> id, title |-> title, prompt |-> prompt],
        requests |-> [afterReject EXCEPT ![id] = FreshPromise]]

\* completeSketch that forgets to clear the slot
CompleteSketchKeepsSlot(M, result) ==
    IF M.pendingRequest # NoRequest
    THEN [pendingRequest |-> M.pendingRequest,
          requests |-> [M.requests EXCEPT ![M.pendingRequest.id] = ResolvePromise(@, result)]]
    ELSE M

\* completeSketch(result)
CompleteSketch(M, result) ==
    IF M.pendingRequest # NoRequest
    THEN [pendingRequest |-> NoRequest,
          requests |-> [M.requests EXCEPT ![M.pendingRequest.id] = ResolvePromise(@, result)]]
    ELSE M

\* cancelSketch that rejects the promise instead of resolving it
CancelSketchRejects(M) ==
    IF M.pendingRequest # NoRequest
    THEN [pendingRequest |-> NoRequest,
          requests |-> [M.requests EXCEPT ![M.pendingRequest.id] = RejectPromise(@, UserCancelledError)]]
    ELSE M

\* cancelSketch()
CancelSketch(M) ==
    IF M.pendingRequest # NoRequest
    THEN [pendingRequest |-> NoRequest,
          requests |-> [M.requests EXCEPT ![M.pendingRequest.id] = ResolvePromise(@, CancelResult)]]
    ELSE M

SetManager(M) ==
    /\ pendingRequest' = M.pendingRequest
    /\ requests' = M.requests

\* ----------------------------------------------------- the AI tools
InvokeIds == 1..MaxInvokes
PanelIds == 1..MaxPanels

\* mcpTools.ts:236 (the extra quick-pick entry of SelectOptionTool)
SKETCH_OPTION == "Reply with a sketch..."
\* mcpTools.ts:132
OPEN_SKETCH_EDITOR == "Open Sketch Editor"
\* mcpTools.ts:155 and 293
RequestCancelledError == "Request was cancelled"

\* JavaScript's  v || d  on an optional string
OrElse(v, d) == IF v \in {Undefined, ""} THEN d ELSE v

\* JSON.stringify of a SketchResult: undefined members are left out
Stringify(r) ==
    [k \in {"success"} \cup {f \in {"title", "svg", "json", "error"} : r[f] # Undefined} |-> r[k]]

\* the inputs an assistant passes to kazo_request_sketch
RequestSketchInputs ==
    { [tool |-> "requestSketch", title |-> "A", prompt |-> Undefined,
       options |-> <<>>, allowSketch |-> FALSE, canSelectMany |-> FALSE] }

\* the inputs an assistant passes to kazo_select_option (prompt is sketchPrompt)
SelectOptionInputs ==
    { [tool |-> "selectOption", title |-> "B", prompt |-> Undefined,
       options |-> <<"x">>, allowSketch |-> TRUE, canSelectMany |-> FALSE],
      [tool |-> "selectOption", title |-> "B", prompt |-> Undefined,
       options |-> <<"x">>, allowSketch |-> FALSE, canSelectMany |-> TRUE],
      [tool |-> "selectOption", title |-> "B", prompt |-> Undefined,
       options |-> <<>>, allowSketch |-> TRUE, canSelectMany |-> FALSE] }

\* an invocation that has not returned
NotReturned == [returned |-> FALSE]

\* a tool invocation that has not started
IdleInvocation ==
    [tool |-> "none", title |-> Undefined, prompt |-> Undefined, allowSketch |-> FALSE,
     pc |-> "idle", req |-> 0, listening |-> FALSE, fired |-> FALSE, firedPending |-> FALSE,
     adopted |-> FALSE, outer |-> "none", cancelP |-> "none",
     race |-> [state |-> "none", from |-> "none"], result |-> NotReturned]

\* the invocation whose requestSketch call created promise r
OwnerOf(r) == CHOOSE i \in InvokeIds : invs[i].req = r

Job(kind, i, from) == [kind |-> kind, inv |-> i, from |-> from]

\* the reaction job queued when the promise in the slot is settled: the async
\* wrapper of requestSketch follows the inner promise once it has adopted it
ReactionsOf(slot, I) ==
    IF slot # NoRequest /\ \E i \in InvokeIds : I[i].req = slot.id /\ I[i].adopted
    THEN << Job("settleOuter", CHOOSE i \in InvokeIds : I[i].req = slot.id, "inner") >>
    ELSE << >>

\* ------------------------------------------------- the editor provider
NoSurface == [state |-> "none", title |-> Undefined, prompt |-> Undefined]
\* DesignDocument defaults: Title = "Untitled Design", Prompt = null
LoadingSurface == [state |-> "loading", title |-> "Untitled Design", prompt |-> Undefined]

FreePanels == {p \in PanelIds : panels[p] = "none"}
NewPanelId == CHOOSE p \in FreePanels : \A q \in FreePanels : p <= q

\* openNewEditor(): reveal the existing panel, or create one and set it up
OpenNewEditor ==
    IF panel # 0
    THEN [panel |-> panel, panels |-> panels, surface |-> surface]
    ELSE [panel |-> NewPanelId,
          panels |-> [panels EXCEPT ![NewPanelId] = "live"],
          surface |-> [surface EXCEPT ![NewPanelId] = LoadingSurface]]

CanOpenNewEditor == panel # 0 \/ FreePanels # {}

\* panel.dispose() of panel p, with the onDidDispose handler of setupWebview:
\* the handler clears this.panel whichever panel was disposed
DisposePanel(p, P) ==
    [panel |-> 0,
     panels |-> [P.panels EXCEPT ![p] = "disposed"],
     surface |-> [P.surface EXCEPT ![p] = [@ EXCEPT !.state = "gone"]]]

Provider == [panel |-> panel, panels |-> panels, surface |-> surface]

SetProvider(P) ==
    /\ panel' = P.panel
    /\ panels' = P.panels
    /\ surface' = P.surface

\* a macrotask of the host starts only when the promise jobs have drained
HostIdle == microtasks = << >>

\* command kazoDesign.openEditor / kazoDesign.newDesign
CommandOpenEditor ==
    /\ HostIdle
    /\ CanOpenNewEditor
    /\ SetProvider(OpenNewEditor)
    /\ UNCHANGED <<mgrVars, toolVars, channelVars, handlerVars, lastConfirm, askVars, designVars, shapeVars, saveVars, viewVars>>

\* deserializeWebviewPanel -> revivePanel(panel): a panel restored by the editor
RevivePanel ==
    /\ HostIdle
    /\ FreePanels # {}
    /\ panel' = NewPanelId
    /\ panels' = [panels EXCEPT ![NewPanelId] = "live"]
    /\ surface' = [surface EXCEPT ![NewPanelId] = LoadingSurface]
    /\ UNCHANGED <<mgrVars, toolVars, channelVars, handlerVars, lastConfirm, askVars, designVars, shapeVars, saveVars, viewVars>>

\* the user closes the editor tab of panel p
ClosePanel(p) ==
    /\ HostIdle
    /\ panels[p] = "live"
    /\ SetProvider(DisposePanel(p, Provider))
    /\ UNCHANGED <<mgrVars, toolVars, channelVars, handlerVars, lastConfirm, askVars, designVars, shapeVars, saveVars, viewVars>>

\* ------------------------------------------------------ tool invocations
\* the sketch branch shared by both tools: open the editor, register the token
\* listener, call requestSketch, race it against the cancellation promise
BeginSketch(i, title, prompt) ==
    /\ CanOpenNewEditor
    /\ NextRequestId(Manager) <= MaxRequests
    /\ SetProvider(OpenNewEditor)
    /\ SetManager(RequestSketch(Manager, title, prompt))
    /\ lastCall' = [op |-> "requestSketch", slot |-> pendingRequest.id]
    /\ invs' = [invs EXCEPT ![i] = [@ EXCEPT !.pc = "waiting", !.req = NextRequestId(Manager),
                                              !.listening = TRUE, !.cancelP = "pending",
                                              !.outer = "pending",
                                              !.race = [state |-> "pending", from |-> "none"]]]
    /\ microtasks' = ReactionsOf(pendingRequest, invs) \o << Job("adopt", i, "inner") >>

Return(i, json) ==
    invs' = [invs EXCEPT ![i] = [@ EXCEPT !.pc = "done", !.result = json]]

\* RequestSketchTool.invoke up to its notification, SelectOptionTool.invoke up to its quick pick
InvokeStart(i, inputs) ==
    /\ HostIdle
    /\ invs[i].pc = "idle"
    /\ \A j \in InvokeIds : j < i => invs[j].pc # "idle"
    /\ \E in \in inputs :
          LET started == [invs[i] EXCEPT !.tool = in.tool, !.allowSketch = in.allowSketch] IN
          IF in.tool = "requestSketch"
          THEN invs' = [invs EXCEPT ![i] =
                   [started EXCEPT !.title = OrElse(in.title, "Design Sketch"),
                                   !.prompt = OrElse(in.prompt, "Please create a sketch of your design idea"),
                                   !.pc = "notify"]]
          ELSE IF Len(in.options) = 0
          THEN invs' = [invs EXCEPT ![i] =
                   [started EXCEPT !.pc = "done",
                                   !.result = [success |-> FALSE, error |-> "No options provided"]]]
          ELSE invs' = [invs EXCEPT ![i] =
                   [started EXCEPT !.title = in.title,
                                   !.prompt = OrElse(in.prompt, "Draw your response"),
                                   !.pc = IF in.canSelectMany /\ ~in.allowSketch
                                          THEN "pickMany" ELSE "pickOne"]]
    /\ UNCHANGED <<mgrVars, microtasks, panelVars, channelVars, handlerVars, lastConfirm, askVars, designVars, shapeVars, saveVars, viewVars>>

\* RequestSketchTool.invoke after the user answered the notification
InvokeNotified(i) ==
    /\ HostIdle
    /\ invs[i].pc = "notify"
    /\ \E answer \in {OPEN_SKETCH_EDITOR, "Skip", Undefined} :
          IF answer # OPEN_SKETCH_EDITOR
          THEN /\ Return(i, [success |-> FALSE, error |-> "User declined to create a sketch"])
               /\ UNCHANGED <<mgrVars, microtasks, panelVars>>
          ELSE BeginSketch(i, invs[i].title, invs[i].prompt)
    /\ UNCHANGED <<channelVars, handlerVars, lastConfirm, askVars, designVars, shapeVars, saveVars, viewVars>>

\* SelectOptionTool.invoke, multi-select mode, after the quick pick closed
InvokePickedMany(i) ==
    /\ HostIdle
    /\ invs[i].pc = "pickMany"
    /\ \E selected \in {Undefined, "x"} :
          IF selected = Undefined
          THEN Return(i, [success |-> FALSE, cancelled |-> TRUE, error |-> "User cancelled selection"])
          ELSE Return(i, [success |-> TRUE, values |-> <<selected>>])
    /\ UNCHANGED <<mgrVars, microtasks, panelVars, channelVars, handlerVars, lastConfirm, askVars, designVars, shapeVars, saveVars, viewVars>>

\* SelectOptionTool.invoke, single-select mode, after the quick pick closed
InvokePickedOne(i) ==
    /\ HostIdle
    /\ invs[i].pc = "pickOne"
    /\ \E selected \in {Undefined, "x"} \cup (IF invs[i].allowSketch THEN {SKETCH_OPTION} ELSE {}) :
          IF selected = Undefined
          THEN /\ Return(i, [success |-> FALSE, cancelled |-> TRUE, error |-> "User cancelled selection"])
               /\ UNCHANGED <<mgrVars, microtasks, panelVars>>
          ELSE IF selected = SKETCH_OPTION
          THEN BeginSketch(i, invs[i].title, invs[i].prompt)
          ELSE /\ Return(i, [success |-> TRUE, responseType |-> "selection", value |-> selected])
               /\ UNCHANGED <<mgrVars, microtasks, panelVars>>
    /\ UNCHANGED <<channelVars, handlerVars, lastConfirm, askVars, designVars, shapeVars, saveVars, viewVars>>

\* the token listener that forgets to reject the cancellation promise
TokenFireNoReject(i) ==
    /\ HostIdle
    /\ invs[i].listening
    /\ ~invs[i].fired
    /\ SetManager(CancelSketch(Manager))
    /\ lastCall' = [op |-> "cancelSketch", slot |-> pendingRequest.id]
    /\ invs' = [invs EXCEPT ![i] = [@ EXCEPT !.fired = TRUE,
                                              !.firedPending = (pendingRequest.id = invs[i].req)]]
    /\ microtasks' = ReactionsOf(pendingRequest, invs)
    /\ UNCHANGED <<panelVars, channelVars, handlerVars, lastConfirm, askVars, designVars, shapeVars, saveVars, viewVars>>

\* token.onCancellationRequested listener of invocation i:
\* manager.cancelSketch(), then reject(new Error('Request was cancelled'))
TokenFire(i) ==
    /\ HostIdle
    /\ invs[i].listening
    /\ ~invs[i].fired
    /\ SetManager(CancelSketch(Manager))
    /\ lastCall' = [op |-> "cancelSketch", slot |-> pendingRequest.id]
    /\ invs' = [invs EXCEPT ![i] = [@ EXCEPT !.fired = TRUE,
                                              !.firedPending = (pendingRequest.id = invs[i].req),
                                              !.cancelP = "rejected"]]
    /\ microtasks' = ReactionsOf(pendingRequest, invs) \o << Job("raceReact", i, "cancel") >>
    /\ UNCHANGED <<panelVars, channelVars, handlerVars, lastConfirm, askVars, designVars, shapeVars, saveVars, viewVars>>

\* ------------------------------------------------- promise reaction jobs
\* the async function's promise is resolved with the inner promise: it subscribes to it
JobAdopt ==
    /\ microtasks # << >>
    /\ Head(microtasks).kind = "adopt"
    /\ LET i == Head(microtasks).inv IN
          /\ invs' = [invs EXCEPT ![i] = [@ EXCEPT !.adopted = TRUE]]
          /\ microtasks' = Tail(microtasks) \o
                (IF requests[invs[i].req].state # "pending"
                 THEN << Job("settleOuter", i, "inner") >> ELSE << >>)
    /\ UNCHANGED <<mgrVars, panelVars, channelVars, handlerVars, lastConfirm, askVars, designVars, shapeVars, saveVars, viewVars>>

\* the promise returned by requestSketch takes the inner promise's outcome
JobSettleOuter ==
    /\ microtasks # << >>
    /\ Head(microtasks).kind = "settleOuter"
    /\ LET i == Head(microtasks).inv IN
          /\ invs' = [invs EXCEPT ![i] = [@ EXCEPT !.outer = requests[invs[i].req].state]]
          /\ microtasks' = Tail(microtasks) \o << Job("raceReact", i, "outer") >>
    /\ UNCHANGED <<mgrVars, panelVars, channelVars, handlerVars, lastConfirm, askVars, designVars, shapeVars, saveVars, viewVars>>

\* Promise.race: the first member to settle settles the race
JobRaceReact ==
    /\ microtasks # << >>
    /\ Head(microtasks).kind = "raceReact"
    /\ LET i == Head(microtasks).inv
           from == Head(microtasks).from IN
          IF invs[i].race.state = "pending"
          THEN /\ invs' = [invs EXCEPT ![i] = [@ EXCEPT !.race =
                              [state |-> IF from = "cancel" THEN "rejected" ELSE invs[i].outer,
                               from |-> from]]]
               /\ microtasks' = Tail(microtasks) \o << Job("resume", i, from) >>
          ELSE /\ invs' = invs
               /\ microtasks' = Tail(microtasks)
    /\ UNCHANGED <<mgrVars, panelVars, channelVars, handlerVars, lastConfirm, askVars, designVars, shapeVars, saveVars, viewVars>>

\* the value or error the race settled with
RaceValue(i) == requests[invs[i].req].value
RaceError(i) ==
    IF invs[i].race.from = "cancel" THEN RequestCancelledError ELSE requests[invs[i].req].reason

\* what invoke returns once its await on the race resumes (try / catch)
InvokeResult(i) ==
    IF invs[i].race.state = "rejected"
    THEN [success |-> FALSE, error |-> RaceError(i)]
    ELSE IF invs[i].tool = "requestSketch"
    THEN Stringify(RaceValue(i))
    ELSE [success |-> TRUE, responseType |-> "sketch", sketch |-> Stringify(RaceValue(i))]

\* invoke resumes after  await Promise.race([...])
JobResume ==
    /\ microtasks # << >>
    /\ Head(microtasks).kind = "resume"
    /\ LET i == Head(microtasks).inv IN
          /\ Return(i, InvokeResult(i))
          /\ microtasks' = Tail(microtasks)
    /\ UNCHANGED <<mgrVars, panelVars, channelVars, handlerVars, lastConfirm, askVars, designVars, shapeVars, saveVars, viewVars>>

\* ----------------------------------------- surface -> host messages
\* the message types handleMessage has a case for
KnownTypes == {"saveDesign", "askUser", "exportResult", "confirmSketch", "ready", "error", "log"}

Message(p, type, title, svg, json, level) ==
    [panel |-> p, type |-> type, title |-> title, svg |-> svg, json |-> json, level |-> level]

\* what the surface in panel p can post once it has booted
SurfaceMessages(p) ==
    { Message(p, "confirmSketch", surface[p].title, "svg", "json", Undefined),
      Message(p, "exportResult", surface[p].title, "svg", "json", Undefined),
      Message(p, "log", Undefined, Undefined, Undefined, "warn"),
      Message(p, "log", Undefined, Undefined, Undefined, Undefined),
      Message(p, "error", Undefined, Undefined, Undefined, Undefined),
      Message(p, "bogus", Undefined, Undefined, Undefined, Undefined) }

\* kazoDesign.initialize: the surface finished booting and posts 'ready'
SurfaceBoot(p) ==
    /\ panels[p] = "live"
    /\ surface[p].state = "loading"
    /\ surface' = [surface EXCEPT ![p] = [@ EXCEPT !.state = "ready"]]
    /\ toHost' = Append(toHost, Message(p, "ready", Undefined, Undefined, Undefined, Undefined))
    /\ UNCHANGED <<mgrVars, toolVars, panel, panels, toSurface, posted, handlerVars, lastConfirm, askVars, designVars, shapeVars, saveVars, viewVars>>

\* the surface posts a message (a button of the editor, a log line, ...)
SurfacePost(p, types) ==
    /\ panels[p] = "live"
    /\ surface[p].state = "ready"
    /\ posted < MaxPosts
    /\ \E m \in SurfaceMessages(p) : m.type \in types /\ toHost' = Append(toHost, m)
    /\ posted' = posted + 1
    /\ UNCHANGED <<mgrVars, toolVars, panelVars, toSurface, handlerVars, lastConfirm, askVars, designVars, shapeVars, saveVars, viewVars>>

\* the head of the queue is delivered to handleMessage of a live panel
Delivered(type) ==
    /\ HostIdle
    /\ toHost # << >>
    /\ panels[Head(toHost).panel] = "live"
    /\ Head(toHost).type = type
    /\ toHost' = Tail(toHost)

\* a message of a disposed panel's webview reaches no listener
DropMessage ==
    /\ HostIdle
    /\ toHost # << >>
    /\ panels[Head(toHost).panel] # "live"
    /\ toHost' = Tail(toHost)
    /\ UNCHANGED <<mgrVars, toolVars, panelVars, toSurface, posted, handlerVars, lastConfirm, askVars, designVars, shapeVars, saveVars, viewVars>>

\* case 'ready'
HandleReady ==
    /\ Delivered("ready")
    /\ hostLog' = "Blazor editor is ready"
    /\ UNCHANGED <<mgrVars, toolVars, panelVars, toSurface, posted, confirms, notice, files, lastConfirm, askVars, designVars, shapeVars, saveVars, viewVars>>

\* case 'log' -> handleBlazorLog
HandleLog ==
    /\ Delivered("log")
    /\ LET level == OrElse(Head(toHost).level, "info") IN
          hostLog' = IF level \in {"error", "warn"} THEN "ERROR: [Blazor WARN]" ELSE "[Blazor INFO]"
    /\ UNCHANGED <<mgrVars, toolVars, panelVars, toSurface, posted, confirms, notice, files, lastConfirm, askVars, designVars, shapeVars, saveVars, viewVars>>

\* case 'error' -> handleBlazorError
HandleError ==
    /\ Delivered("error")
    /\ hostLog' = "ERROR: Blazor Error"
    /\ notice' = "Kazo Design Error"
    /\ UNCHANGED <<mgrVars, toolVars, panelVars, toSurface, posted, confirms, files, lastConfirm, askVars, designVars, shapeVars, saveVars, viewVars>>

\* case 'exportResult' -> handleExportResult (console.log only)
HandleExportResult ==
    /\ Delivered("exportResult")
    /\ UNCHANGED <<mgrVars, toolVars, panelVars, toSurface, posted, handlerVars, lastConfirm, askVars, designVars, shapeVars, saveVars, viewVars>>

UnknownTypeLog(type) ==
    IF type = "bogus" THEN "Unknown message type: bogus" ELSE "Unknown message type"

\* a default case that answers the surface with an error message
DefaultCaseReplies(m) ==
    /\ hostLog' = UnknownTypeLog(m.type)
    /\ toSurface' = Append(toSurface, Message(m.panel, "error", Undefined, Undefined, Undefined, Undefined))
    /\ UNCHANGED <<mgrVars, toolVars, panelVars, posted, confirms, notice, files, lastConfirm, askVars, designVars, shapeVars, saveVars, viewVars>>

\* default: this.log(`Unknown message type: ${message.type}`)
DefaultCase(m) ==
    /\ hostLog' = UnknownTypeLog(m.type)
    /\ UNCHANGED <<mgrVars, toolVars, panelVars, toSurface, posted, confirms, notice, files, lastConfirm, askVars, designVars, shapeVars, saveVars, viewVars>>

HandleUnknown ==
    /\ toHost # << >>
    /\ Head(toHost).type \notin KnownTypes
    /\ Delivered(Head(toHost).type)
    /\ DefaultCase(Head(toHost))

\* ------------------------------------------------- handleConfirmSketch
SAVE_AND_RETURN == "Save sketch and return"
RETURN_WITHOUT_SAVING == "Return without saving"

NoConfirm == [n |-> 0, title |-> Undefined, svg |-> Undefined, json |-> Undefined,
              slotAtReceipt |-> 0, slotAtComplete |-> 0]

RemoveAt(seq, k) == SubSeq(seq, 1, k - 1) \o SubSeq(seq, k + 1, Len(seq))

\* case 'confirmSketch': handleConfirmSketch runs up to its save-choice quick pick
HandleConfirmSketch ==
    /\ Delivered("confirmSketch")
    /\ confirms' = Append(confirms, [msg |-> Head(toHost), stage |-> "saveChoice",
                                     slotAtReceipt |-> pendingRequest.id])
    /\ UNCHANGED <<mgrVars, toolVars, panelVars, toSurface, posted, hostLog, notice, files, lastConfirm, askVars, designVars, shapeVars, saveVars, viewVars>>

\* the end of handleConfirmSketch: complete the pending request, close the
\* panel, show the confirmation
ConfirmFinish(k, savedFiles) ==
    LET msg == confirms[k].msg
        had == HasPendingRequest(Manager)
    IN /\ SetManager(IF had
                     THEN CompleteSketch(Manager, SuccessResult(msg.title, msg.svg, msg.json))
                     ELSE Manager)
       /\ lastCall' = IF had THEN [op |-> "completeSketch", slot |-> pendingRequest.id] ELSE lastCall
       /\ microtasks' = IF had THEN ReactionsOf(pendingRequest, invs) ELSE << >>
       /\ SetProvider(IF panel # 0 THEN DisposePanel(panel, Provider) ELSE Provider)
       /\ notice' = "Sketch confirmed!"
       /\ files' = savedFiles
       /\ confirms' = RemoveAt(confirms, k)
       /\ lastConfirm' = [n |-> lastConfirm.n + 1, title |-> msg.title, svg |-> msg.svg,
                          json |-> msg.json, slotAtReceipt |-> confirms[k].slotAtReceipt,
                          slotAtComplete |-> pendingRequest.id]
       /\ UNCHANGED <<invs, channelVars, hostLog, askVars, designVars, shapeVars, saveVars, viewVars>>

\* the save-choice quick pick closes
ConfirmChoice(k) ==
    /\ HostIdle
    /\ k \in 1..Len(confirms)
    /\ confirms[k].stage = "saveChoice"
    /\ \E saveChoice \in {SAVE_AND_RETURN, RETURN_WITHOUT_SAVING, Undefined} :
          IF saveChoice = SAVE_AND_RETURN
          THEN /\ confirms' = [confirms EXCEPT ![k] = [@ EXCEPT !.stage = "saveDialog"]]
               /\ UNCHANGED <<mgrVars, toolVars, panelVars, channelVars, hostLog, notice, files, lastConfirm, askVars, designVars, shapeVars, saveVars, viewVars>>
          ELSE ConfirmFinish(k, files)

\* the save dialog closes; the files are written or the write fails
ConfirmSaved(k) ==
    /\ HostIdle
    /\ k \in 1..Len(confirms)
    /\ confirms[k].stage = "saveDialog"
    /\ \E saveUri \in {Undefined, "out"}, fsOk \in BOOLEAN :
          IF saveUri = Undefined
          THEN ConfirmFinish(k, files)
          ELSE IF fsOk
          THEN ConfirmFinish(k, files \cup {saveUri})
          ELSE ConfirmFinish(k, files)

\* ------------------------------------------------ the extension host
\* ------------------------------------------------- askUser / userResponse
AskIds == 1..MaxAsks
ClockValues == 0..MaxClock
\* surface p > 0 runs in the webview of panel p; surface 0 is the editor page
\* opened in a browser, where no VS Code API exists
SurfaceIds == 0..MaxPanels

UnusedAsk ==
    [state |-> "unused", surface |-> 0, requestId |-> 0, value |-> Undefined,
     settles |-> 0, responses |-> 0]

\* the page of surface s is loaded and has not been destroyed
SurfaceAlive(s) == IF s = 0 THEN TRUE ELSE panels[s] = "live" /\ surface[s].state = "ready"

NextAskId == Cardinality({k \in AskIds : asks[k].state # "unused"}) + 1

\* the askUser message of call k; requestId r stands for 'req_' + r
AskMessage(s, r, questionType, hasOptions, k) ==
    [panel |-> s, type |-> "askUser", requestId |-> r, questionType |-> questionType,
     hasOptions |-> hasOptions, ask |-> k]

\* kazoDesign.askUser(questionType, title, placeholder, options) on surface s:
\* the resolver is stored under 'req_' + Date.now(), then the message is
\* posted; outside VS Code postMessage only writes to the console
AskUser(s, questionType, hasOptions) ==
    /\ SurfaceAlive(s)
    /\ NextAskId <= MaxAsks
    /\ asks' = [asks EXCEPT ![NextAskId] =
                    [state |-> "pending", surface |-> s, requestId |-> clock,
                     value |-> Undefined, settles |-> 0, responses |-> 0]]
    /\ askTable' = [askTable EXCEPT ![s][clock] = NextAskId]
    /\ toHost' = IF s # 0
                 THEN Append(toHost, AskMessage(s, clock, questionType, hasOptions, NextAskId))
                 ELSE toHost
    /\ UNCHANGED <<mgrVars, toolVars, panelVars, toSurface, posted, handlerVars,
                   lastConfirm, clock, askHandlers, designVars, shapeVars, saveVars, viewVars>>

\* time passes between two reads of Date.now()
ClockTick ==
    /\ clock < MaxClock
    /\ clock' = clock + 1
    /\ UNCHANGED <<mgrVars, hostVars, lastConfirm, asks, askTable, askHandlers, designVars, shapeVars, saveVars, viewVars>>

\* case 'askUser' -> handleAskUser, up to its await: a quick pick when
\* questionType is 'quickPick' and options were given, an input box otherwise
HandleAskUser ==
    /\ Delivered("askUser")
    /\ askHandlers' = Append(askHandlers,
           [panel |-> Head(toHost).panel, requestId |-> Head(toHost).requestId,
            ask |-> Head(toHost).ask,
            dialog |-> IF Head(toHost).questionType = "quickPick" /\ Head(toHost).hasOptions
                       THEN "quickPick" ELSE "inputBox"])
    /\ UNCHANGED <<mgrVars, toolVars, panelVars, toSurface, posted, handlerVars,
                   lastConfirm, clock, asks, askTable, designVars, shapeVars, saveVars, viewVars>>

\* what the dialog of a handler can return: undefined when dismissed
DialogResults(h) == IF h.dialog = "quickPick" THEN {Undefined, "picked"} ELSE {Undefined, "typed"}

UserResponse(h, result) ==
    [panel |-> h.panel, type |-> "userResponse", requestId |-> h.requestId, value |-> result]

\* handleAskUser after its await: one webview.postMessage of userResponse; the
\* webview of a disposed panel delivers nothing
AskAnswered(n) ==
    /\ HostIdle
    /\ n \in 1..Len(askHandlers)
    /\ \E result \in DialogResults(askHandlers[n]) :
           toSurface' = IF panels[askHandlers[n].panel] = "live"
                        THEN Append(toSurface, UserResponse(askHandlers[n], result))
                        ELSE toSurface
    /\ asks' = [asks EXCEPT ![askHandlers[n].ask].responses = @ + 1]
    /\ askHandlers' = RemoveAt(askHandlers, n)
    /\ UNCHANGED <<mgrVars, toolVars, panelVars, toHost, posted, handlerVars,
                   lastConfirm, clock, askTable, designVars, shapeVars, saveVars, viewVars>>

\* the resolver of an askUser promise is called with a value: only the first
\* call settles the promise
ResolveAsk(a, value) ==
    [a EXCEPT !.state = "resolved",
              !.value = IF a.state = "pending" THEN value ELSE a.value,
              !.settles = a.settles + 1]

\* the part of the pages that handleExtensionMessage reads and writes;
\* initialized: kazoDesign.initialize has stored the .NET reference
SurfaceAsks ==
    [asks |-> asks, askTable |-> askTable, pageLoads |-> pageLoads,
     pageExports |-> pageExports,
     initialized |-> [p \in PanelIds |-> surface[p].state = "ready"]]

\* provider.loadDesign(json) posts this
LoadDesignMessage(p, json) == [panel |-> p, type |-> "loadDesign", data |-> json]

\* provider.requestExport() posts this
ExportDesignMessage(p) == [panel |-> p, type |-> "exportDesign"]

\* handleExtensionMessage without the delete of the table entry
HandleExtensionMessageKeepsEntry(S, m) ==
    IF m.type = "loadDesign"
    THEN IF S.initialized[m.panel] THEN [S EXCEPT !.pageLoads[m.panel] = @ + 1] ELSE S
    ELSE IF m.type = "exportDesign"
    THEN [S EXCEPT !.pageExports[m.panel] = @ + 1]
    ELSE IF m.type = "userResponse" /\ S.askTable[m.panel][m.requestId] # 0
    THEN [S EXCEPT !.asks[S.askTable[m.panel][m.requestId]] =
                       ResolveAsk(S.asks[S.askTable[m.panel][m.requestId]], m.value)]
    ELSE S

\* handleExtensionMessage(message) in the page of panel m.panel: loadDesign
\* calls kazoDesign.loadDesign, which invokes LoadDesign once the .NET
\* reference is set; exportDesign calls kazoDesign.exportDesign and posts an
\* exportResult from its then-callback; a userResponse calls the resolver
\* stored under its requestId, if any, and deletes the entry
HandleExtensionMessage(S, m) ==
    IF m.type = "loadDesign"
    THEN IF S.initialized[m.panel] THEN [S EXCEPT !.pageLoads[m.panel] = @ + 1] ELSE S
    ELSE IF m.type = "exportDesign"
    THEN [S EXCEPT !.pageExports[m.panel] = @ + 1]
    ELSE IF m.type = "userResponse" /\ S.askTable[m.panel][m.requestId] # 0
    THEN [S EXCEPT !.asks[S.askTable[m.panel][m.requestId]] =
                       ResolveAsk(S.asks[S.askTable[m.panel][m.requestId]], m.value),
                   !.askTable[m.panel][m.requestId] = 0]
    ELSE S

\* how many 'message' listeners of the page in panel p reach
\* handleExtensionMessage: the script the provider injects into <head>
\* registers one, kazo-design.js registers another; until kazo-design.js has
\* run, its listener does not exist and the injected one finds no
\* handleExtensionMessage
ListenerRuns(p) == IF surface[p].state = "ready" THEN {2} ELSE {0, 2}

\* handleExtensionMessage called once by each of n listeners
RECURSIVE Dispatch(_, _, _)
Dispatch(S, m, n) == IF n = 0 THEN S ELSE Dispatch(HandleExtensionMessage(S, m), m, n - 1)

\* a host message reaches the page of a live panel
SurfaceReceive ==
    /\ toSurface # << >>
    /\ panels[Head(toSurface).panel] = "live"
    /\ \E n \in ListenerRuns(Head(toSurface).panel) :
          LET S == Dispatch(SurfaceAsks, Head(toSurface), n)
          IN /\ asks' = S.asks
             /\ askTable' = S.askTable
             /\ pageLoads' = S.pageLoads
             /\ pageExports' = S.pageExports
    /\ toSurface' = Tail(toSurface)
    /\ UNCHANGED <<mgrVars, toolVars, panelVars, toHost, posted, handlerVars,
                   lastConfirm, clock, askHandlers, designVars, shapeVars, saveVars, hostSent>>

\* the then-callback of one kazoDesign.exportDesign() call posts exportResult;
\* the result is null while the .NET reference is not set
ExportDone(p) ==
    /\ panels[p] = "live"
    /\ pageExports[p] > 0
    /\ pageExports' = [pageExports EXCEPT ![p] = @ - 1]
    /\ toHost' = Append(toHost,
                   IF surface[p].state = "ready"
                   THEN Message(p, "exportResult", surface[p].title, "svg", "json", Undefined)
                   ELSE Message(p, "exportResult", Undefined, Undefined, Undefined, Undefined))
    /\ UNCHANGED <<mgrVars, toolVars, panelVars, toSurface, posted, handlerVars,
                   lastConfirm, askVars, designVars, shapeVars, saveVars, hostSent, pageLoads>>

\* provider.loadDesign(json): posted to this.panel if there is one
PostLoadDesign(json) ==
    /\ HostIdle
    /\ hostSent < MaxHostPosts
    /\ hostSent' = hostSent + 1
    /\ toSurface' = IF panel # 0
                    THEN Append(toSurface, LoadDesignMessage(panel, json))
                    ELSE toSurface
    /\ UNCHANGED <<mgrVars, toolVars, panelVars, toHost, posted, handlerVars,
                   lastConfirm, askVars, designVars, shapeVars, saveVars, pageLoads, pageExports>>

\* provider.requestExport(): posted to this.panel if there is one
RequestExport ==
    /\ HostIdle
    /\ hostSent < MaxHostPosts
    /\ hostSent' = hostSent + 1
    /\ toSurface' = IF panel # 0
                    THEN Append(toSurface, ExportDesignMessage(panel))
                    ELSE toSurface
    /\ UNCHANGED <<mgrVars, toolVars, panelVars, toHost, posted, handlerVars,
                   lastConfirm, askVars, designVars, shapeVars, saveVars, pageLoads, pageExports>>

InitViews ==
    /\ hostSent = 0
    /\ pageLoads = [p \in PanelIds |-> 0]
    /\ pageExports = [p \in PanelIds |-> 0]

\* a host message queued for a panel that was disposed meanwhile is lost
DropToSurface ==
    /\ toSurface # << >>
    /\ panels[Head(toSurface).panel] # "live"
    /\ toSurface' = Tail(toSurface)
    /\ UNCHANGED <<mgrVars, toolVars, panelVars, toHost, posted, handlerVars,
                   lastConfirm, askVars, designVars, shapeVars, saveVars, viewVars>>

\* ------------------------------------------- DesignService (the document)
\* C# null of a string or enum property
Null == "<null>"

\* string.IsNullOrWhiteSpace
IsNullOrWhiteSpace(str) == str \in {Null, "", " "}

DefaultTitle == "Untitled Design"
DefaultCanvasWidth == 800
DefaultCanvasHeight == 600
DefaultBackgroundColor == "#1e1e1e"

\* new DesignDocument() at time now
NewDocument(now) ==
    [title |-> DefaultTitle, canvasWidth |-> DefaultCanvasWidth,
     canvasHeight |-> DefaultCanvasHeight, backgroundColor |-> DefaultBackgroundColor,
     elements |-> << >>, prompt |-> Null, createdAt |-> now, modifiedAt |-> now]

\* a DesignElement object: ref is the object's identity, id its Guid
Element(ref, id, type, x, name, meaning, parent, backgroundColor) ==
    [ref |-> ref, id |-> id, type |-> type, x |-> x, name |-> name, meaning |-> meaning,
     parent |-> parent, backgroundColor |-> backgroundColor, isSelected |-> FALSE]

\* the elements the editor creates: new KRectangle { ... }, new KCircle { ... }, ...
\* with ref as the new object and its Guid
NewElements(ref) ==
    { Element(ref, ref, "rectangle", 50, "V", "View", Null, Null),
      Element(ref, ref, "circle", 300, Null, Null, Null, "#ffffff"),
      Element(ref, ref, "text", 50, "V", "Panel", Null, Null) }

ViewNames == {"V", "X"}

\* the references of the elements of a list
RefsOf(elements) == {elements[n].ref : n \in 1..Len(elements)}

RECURSIVE Where(_, _)
\* elements.Where(e => e.Parent == context), in order
Where(elements, context) ==
    IF elements = << >> THEN << >>
    ELSE IF Head(elements).parent = context
         THEN << Head(elements) >> \o Where(Tail(elements), context)
         ELSE Where(Tail(elements), context)

RECURSIVE Remove(_, _)
\* List<T>.Remove(item): removes the first occurrence of the object
Remove(elements, ref) ==
    IF elements = << >> THEN << >>
    ELSE IF Head(elements).ref = ref THEN Tail(elements)
    ELSE << Head(elements) >> \o Remove(Tail(elements), ref)

RECURSIVE RemoveAll(_, _)
\* foreach (var element in elementsToRemove) Document.Elements.Remove(element)
RemoveAll(elements, toRemove) ==
    IF toRemove = << >> THEN elements
    ELSE RemoveAll(Remove(elements, Head(toRemove).ref), Tail(toRemove))

\* the state of the service as one value
Service ==
    [Document |-> Document, SelectedElement |-> SelectedElement,
     CurrentViewContext |-> CurrentViewContext, ViewBreadcrumb |-> ViewBreadcrumb,
     loadResult |-> loadResult]

\* element.IsSelected = flag on the object ref, wherever the document holds it
SetIsSelected(elements, ref, flag) ==
    [n \in 1..Len(elements) |->
        IF elements[n].ref = ref THEN [elements[n] EXCEPT !.isSelected = flag]
        ELSE elements[n]]

\* NotifyStateChanged that leaves the timestamp alone
NotifyStateChangedKeepsTime(S, now) == S

\* NotifyStateChanged(): Document.ModifiedAt = DateTime.UtcNow
NotifyStateChanged(S, now) ==
    [S EXCEPT !.Document = [S.Document EXCEPT !.modifiedAt = now]]

\* SelectElement that leaves the flag of the element selected before
SelectElementKeepsFlag(S, ref) ==
    [S EXCEPT !.Document = [S.Document EXCEPT !.elements =
                  IF ref # 0 THEN SetIsSelected(S.Document.elements, ref, TRUE)
                  ELSE S.Document.elements],
              !.SelectedElement = ref]

\* SelectElement(element): clear the flag of the element selected before, store
\* the reference, set the flag of the new one (0 is null)
SelectElement(S, ref) ==
    LET cleared == IF S.SelectedElement # 0
                   THEN SetIsSelected(S.Document.elements, S.SelectedElement, FALSE)
                   ELSE S.Document.elements
        flagged == IF ref # 0 THEN SetIsSelected(cleared, ref, TRUE) ELSE cleared
    IN [S EXCEPT !.Document = [S.Document EXCEPT !.elements = flagged],
                 !.SelectedElement = ref]

\* AddElement without the selection of the new element
AddElementKeepsSelection(S, element, now) ==
    NotifyStateChanged(
        [S EXCEPT !.Document = [S.Document EXCEPT !.elements =
             Append(S.Document.elements, [element EXCEPT !.parent = S.CurrentViewContext])]],
        now)

\* AddElement(element)
AddElement(S, element, now) ==
    NotifyStateChanged(
        SelectElement(
            [S EXCEPT !.Document = [S.Document EXCEPT !.elements =
                 Append(S.Document.elements, [element EXCEPT !.parent = S.CurrentViewContext])]],
            element.ref),
        now)

\* RemoveElement that always clears the selection
RemoveElementClearsSelection(S, ref, now) ==
    NotifyStateChanged(
        SelectElement([S EXCEPT !.Document = [S.Document EXCEPT !.elements =
                           Remove(S.Document.elements, ref)]], 0),
        now)

\* RemoveElement(element)
RemoveElement(S, ref, now) ==
    LET removed == [S EXCEPT !.Document = [S.Document EXCEPT !.elements =
                        Remove(S.Document.elements, ref)]]
    IN NotifyStateChanged(
           IF S.SelectedElement = ref THEN SelectElement(removed, 0) ELSE removed,
           now)

\* ClearCanvas that removes the elements of every view
ClearCanvasEverywhere(S, now) ==
    NotifyStateChanged(
        SelectElement([S EXCEPT !.Document = [S.Document EXCEPT !.elements = << >>]], 0),
        now)

\* ClearCanvas()
ClearCanvas(S, now) ==
    NotifyStateChanged(
        SelectElement(
            [S EXCEPT !.Document = [S.Document EXCEPT !.elements =
                 RemoveAll(S.Document.elements,
                           Where(S.Document.elements, S.CurrentViewContext))]],
            0),
        now)

\* Document.Elements.FirstOrDefault(e => e.Name == viewName && e.Meaning == View) != null
HasView(S, viewName) ==
    \E n \in 1..Len(S.Document.elements) :
        S.Document.elements[n].name = viewName /\ S.Document.elements[n].meaning = "View"

\* EnterView that pushes the context even at root
EnterViewPushesNull(S, viewName, now) ==
    IF ~HasView(S, viewName) THEN S
    ELSE NotifyStateChanged(
             SelectElement(
                 [S EXCEPT !.ViewBreadcrumb = Append(S.ViewBreadcrumb, S.CurrentViewContext),
                           !.CurrentViewContext = viewName],
                 0),
             now)

\* EnterView(viewName)
EnterView(S, viewName, now) ==
    IF ~HasView(S, viewName) THEN S
    ELSE NotifyStateChanged(
             SelectElement(
                 [S EXCEPT !.ViewBreadcrumb = IF S.CurrentViewContext # Null
                                              THEN Append(S.ViewBreadcrumb, S.CurrentViewContext)
                                              ELSE S.ViewBreadcrumb,
                           !.CurrentViewContext = viewName],
                 0),
             now)

\* ExitToParentView that keeps the breadcrumb entry
ExitToParentViewKeepsCrumb(S, now) ==
    NotifyStateChanged(
        SelectElement(
            IF Len(S.ViewBreadcrumb) > 0
            THEN [S EXCEPT !.CurrentViewContext = S.ViewBreadcrumb[Len(S.ViewBreadcrumb)]]
            ELSE [S EXCEPT !.CurrentViewContext = Null],
            0),
        now)

\* ExitToParentView()
ExitToParentView(S, now) ==
    NotifyStateChanged(
        SelectElement(
            IF Len(S.ViewBreadcrumb) > 0
            THEN [S EXCEPT !.CurrentViewContext = S.ViewBreadcrumb[Len(S.ViewBreadcrumb)],
                           !.ViewBreadcrumb = SubSeq(S.ViewBreadcrumb, 1, Len(S.ViewBreadcrumb) - 1)]
            ELSE [S EXCEPT !.CurrentViewContext = Null],
            0),
        now)

\* ExitToRoot that leaves the breadcrumb as it is
ExitToRootKeepsCrumbs(S, now) ==
    NotifyStateChanged(SelectElement([S EXCEPT !.CurrentViewContext = Null], 0), now)

\* ExitToRoot()
ExitToRoot(S, now) ==
    NotifyStateChanged(
        SelectElement([S EXCEPT !.CurrentViewContext = Null, !.ViewBreadcrumb = << >>], 0),
        now)

\* SetMcpContext(title, prompt)
SetMcpContext(S, title, prompt, now) ==
    NotifyStateChanged(
        [S EXCEPT !.Document =
            [S.Document EXCEPT !.title = IF ~IsNullOrWhiteSpace(title) THEN title ELSE @,
                               !.prompt = IF ~IsNullOrWhiteSpace(prompt) THEN prompt ELSE @]],
        now)

\* the JSON object of one element: the "$type" discriminator of its
\* JsonDerivedType, the public properties in camelCase; BackgroundColor,
\* BorderColor and IsSelected are [JsonIgnore]
ElementJson(e) ==
    [type |-> e.type, id |-> e.id, x |-> e.x, name |-> e.name, meaning |-> e.meaning,
     parent |-> e.parent, elementType |-> e.type]

\* a JSON text: syntax "ok" | "malformed", root "object" | "null", and the object
JsonText(syntax, root, value) == [syntax |-> syntax, root |-> root, value |-> value]

\* JsonSerializer.Serialize(Document, JsonOptions)
ToJson(doc) ==
    JsonText("ok", "object",
        [title |-> doc.title, canvasWidth |-> doc.canvasWidth,
         canvasHeight |-> doc.canvasHeight, backgroundColor |-> doc.backgroundColor,
         elements |-> [n \in 1..Len(doc.elements) |-> ElementJson(doc.elements[n])],
         prompt |-> doc.prompt, createdAt |-> doc.createdAt, modifiedAt |-> doc.modifiedAt])

\* texts that are no document: a syntax error, the literal null
MalformedJson == JsonText("malformed", "none", [elements |-> << >>])
NullJson == JsonText("ok", "null", [elements |-> << >>])

\* deserialization that does not read the "parent" and "meaning" properties
ElementFromJsonWithoutNesting(j, ref) ==
    Element(ref, j.id, j.type, j.x, j.name, Null, Null, Null)

\* the element object built from its JSON object: a new object (ref) of the
\* type the discriminator names; ignored properties take their defaults
ElementFromJson(j, ref) ==
    Element(ref, j.id, j.type, j.x, j.name, j.meaning, j.parent, Null)

\* JsonSerializer.Deserialize<DesignDocument>(json, JsonOptions): throws on a
\* syntax error, returns null for the literal null
Deserialize(json, firstRef) ==
    [threw |-> json.syntax # "ok",
     isNull |-> json.syntax = "ok" /\ json.root = "null",
     document |-> IF json.syntax = "ok" /\ json.root = "object"
                  THEN [title |-> json.value.title, canvasWidth |-> json.value.canvasWidth,
                        canvasHeight |-> json.value.canvasHeight,
                        backgroundColor |-> json.value.backgroundColor,
                        elements |-> [n \in 1..Len(json.value.elements) |->
                                         ElementFromJson(json.value.elements[n], firstRef + n - 1)],
                        prompt |-> json.value.prompt, createdAt |-> json.value.createdAt,
                        modifiedAt |-> json.value.modifiedAt]
                  ELSE NewDocument(0)]

\* LoadDesign whose catch block starts over with an empty document
LoadDesignResetsOnError(S, json, firstRef, now) ==
    IF Deserialize(json, firstRef).threw
    THEN [S EXCEPT !.Document = NewDocument(now), !.SelectedElement = 0,
                   !.loadResult = "error logged"]
    ELSE IF Deserialize(json, firstRef).isNull
    THEN [S EXCEPT !.loadResult = "no document"]
    ELSE NotifyStateChanged(
             SelectElement([S EXCEPT !.Document = Deserialize(json, firstRef).document,
                                     !.loadResult = "loaded"], 0),
             now)

\* LoadDesign(json): an exception of the try block is caught and written to
\* Console.Error, a null document is ignored, the task returned is completed
LoadDesign(S, json, firstRef, now) ==
    IF Deserialize(json, firstRef).threw
    THEN [S EXCEPT !.loadResult = "error logged"]
    ELSE IF Deserialize(json, firstRef).isNull
    THEN [S EXCEPT !.loadResult = "no document"]
    ELSE NotifyStateChanged(
             SelectElement([S EXCEPT !.Document = Deserialize(json, firstRef).document,
                                     !.loadResult = "loaded"], 0),
             now)

\* the SVG primitive of each element type
SvgTag(type) ==
    CASE type = "rectangle" -> "rect"
      [] type = "circle" -> "circle"
      [] type = "line" -> "line"
      [] type = "text" -> "text"
      [] type = "image" -> "image"
      [] OTHER -> ""

\* GenerateSvg that draws the elements of the current view only
GenerateSvgOfView(doc, context) ==
    << [tag |-> "svg", id |-> 0], [tag |-> "rect", id |-> 0] >>
    \o [n \in 1..Len(Where(doc.elements, context)) |->
           [tag |-> SvgTag(Where(doc.elements, context)[n].type),
            id |-> Where(doc.elements, context)[n].id]]

\* GenerateSvg that paints the newest element first
GenerateSvgNewestFirst(doc, context) ==
    << [tag |-> "svg", id |-> 0], [tag |-> "rect", id |-> 0] >>
    \o [n \in 1..Len(doc.elements) |->
           [tag |-> SvgTag(doc.elements[Len(doc.elements) + 1 - n].type),
            id |-> doc.elements[Len(doc.elements) + 1 - n].id]]

\* GenerateSvg(): the svg header, the background rect, one primitive per
\* element in document order
GenerateSvg(doc, context) ==
    << [tag |-> "svg", id |-> 0], [tag |-> "rect", id |-> 0] >>
    \o [n \in 1..Len(doc.elements) |-> [tag |-> SvgTag(doc.elements[n].type),
                                        id |-> doc.elements[n].id]]

\* ExportDesignSync()
ExportDesignSync(S) ==
    [svg |-> GenerateSvg(S.Document, S.CurrentViewContext), json |-> ToJson(S.Document),
     title |-> S.Document.title, prompt |-> S.Document.prompt]

\* ----------------------------------------------- the service's callers
SetService(S) ==
    /\ Document' = S.Document
    /\ SelectedElement' = S.SelectedElement
    /\ CurrentViewContext' = S.CurrentViewContext
    /\ ViewBreadcrumb' = S.ViewBreadcrumb
    /\ loadResult' = S.loadResult

nonDesignVars == <<mgrVars, hostVars, lastConfirm, askVars, shapeVars, saveVars, viewVars>>

\* the method called last, with the element or the name it was given
Op(op, ref, name) == [op |-> op, ref |-> ref, name |-> name]


CallSelectElement ==
    \E ref \in RefsOf(Document.elements) \cup {0} :
        /\ SetService(SelectElement(Service, ref))
        /\ lastOp' = Op("SelectElement", ref, Null)
        /\ UNCHANGED <<nextRef, exported, nonDesignVars>>

CallAddElement ==
    /\ nextRef <= MaxObjects
    /\ \E element \in NewElements(nextRef) :
           SetService(AddElement(Service, element, clock))
    /\ nextRef' = nextRef + 1
    /\ lastOp' = Op("AddElement", nextRef, Null)
    /\ UNCHANGED <<exported, nonDesignVars>>

CallRemoveElement ==
    \E ref \in 1..(nextRef - 1) :
        /\ SetService(RemoveElement(Service, ref, clock))
        /\ lastOp' = Op("RemoveElement", ref, Null)
        /\ UNCHANGED <<nextRef, exported, nonDesignVars>>

CallClearCanvas ==
    /\ SetService(ClearCanvas(Service, clock))
    /\ lastOp' = Op("ClearCanvas", 0, Null)
    /\ UNCHANGED <<nextRef, exported, nonDesignVars>>

CallEnterView ==
    \E viewName \in ViewNames :
        /\ Len(ViewBreadcrumb) < MaxCrumbs
        /\ SetService(EnterView(Service, viewName, clock))
        /\ lastOp' = Op("EnterView", 0, viewName)
        /\ UNCHANGED <<nextRef, exported, nonDesignVars>>

CallExitToParentView ==
    /\ SetService(ExitToParentView(Service, clock))
    /\ lastOp' = Op("ExitToParentView", 0, Null)
    /\ UNCHANGED <<nextRef, exported, nonDesignVars>>

CallExitToRoot ==
    /\ SetService(ExitToRoot(Service, clock))
    /\ lastOp' = Op("ExitToRoot", 0, Null)
    /\ UNCHANGED <<nextRef, exported, nonDesignVars>>

\* the title and prompt an assistant can pass
McpContextInputs == { <<"A", "p1">>, <<" ", Null>> }

CallSetMcpContext(inputs) ==
    \E in \in inputs :
        /\ SetService(SetMcpContext(Service, in[1], in[2], clock))
        /\ lastOp' = Op("SetMcpContext", 0, in[1])
        /\ UNCHANGED <<nextRef, exported, nonDesignVars>>

\* ExportDesign(): the result is kept, with the document it was made from
CallExportDesign ==
    /\ exported' = [made |-> TRUE, result |-> ExportDesignSync(Service), source |-> Document]
    /\ lastOp' = Op("ExportDesign", 0, Null)
    /\ UNCHANGED <<Document, SelectedElement, CurrentViewContext, ViewBreadcrumb, nextRef,
                   loadResult, nonDesignVars>>

\* LoadDesign(json) with a text that is no document
CallLoadDesignFails ==
    \E json \in {MalformedJson, NullJson} :
        /\ SetService(LoadDesign(Service, json, nextRef, clock))
        /\ lastOp' = Op("LoadDesign", 0, json.root)
        /\ UNCHANGED <<nextRef, exported, nonDesignVars>>

\* a document saved earlier: a view, and a circle inside it
SavedDocument ==
    [NewDocument(0) EXCEPT
        !.title = "Saved",
        !.elements = << Element(0, 8, "rectangle", 50, "V", "View", Null, Null),
                        Element(0, 9, "circle", 300, Null, Null, "V", Null) >>]

\* LoadDesign(json) with the JSON of a document: its elements are new objects;
\* the objects of the document it replaces are unreachable afterwards, so the
\* numbering of the objects starts again
CallLoadDesign(json) ==
    /\ Len(json.value.elements) <= MaxObjects
    /\ SetService(LoadDesign(Service, json, 1, clock))
    /\ nextRef' = Len(json.value.elements) + 1
    /\ lastOp' = Op("LoadDesign", 0, json.root)
    /\ UNCHANGED <<exported, nonDesignVars>>

\* LoadDesign(json) with the JSON of the last export
CallLoadExported ==
    /\ exported.made
    /\ CallLoadDesign(exported.result.json)

InitDesign ==
    /\ Document = NewDocument(0)
    /\ SelectedElement = 0
    /\ CurrentViewContext = Null
    /\ ViewBreadcrumb = << >>
    /\ nextRef = 1
    /\ exported = [made |-> FALSE, result |-> ExportDesignSync(
                       [Document |-> NewDocument(0), CurrentViewContext |-> Null]),
                   source |-> NewDocument(0)]
    /\ loadResult = "none"
    /\ lastOp = Op("none", 0, Null)

NextDesign ==
    \/ ClockTick
    \/ CallSelectElement
    \/ CallAddElement
    \/ CallRemoveElement
    \/ CallClearCanvas
    \/ CallEnterView
    \/ CallExitToParentView
    \/ CallExitToRoot
    \/ CallSetMcpContext({<<"A", Null>>})
    \/ CallLoadDesignFails
    \/ CallLoadDesign(ToJson(SavedDocument))

\* ------------------------------------- the elements' geometry and markup
\* a DesignElement with the properties its geometry uses; a property its
\* class does not have is 0. Coordinates are whole numbers, and the extents
\* are even so that the halves the code takes are whole too.
Shape(type, x, y, rotation, width, height, radius, x2, y2, strokeWidth) ==
    [type |-> type, id |-> 0, x |-> x, y |-> y, rotation |-> rotation,
     width |-> width, height |-> height, radius |-> radius, x2 |-> x2, y2 |-> y2,
     strokeWidth |-> strokeWidth, textType |-> "Paragraph", fontSize |-> 0, textLength |-> 0]

\* a KText: its TextType, FontSize and the length of its DisplayText
TextShape(x, y, rotation, textType, fontSize, textLength) ==
    [Shape("text", x, y, rotation, 0, 0, 0, 0, 0, 0) EXCEPT
        !.textType = textType, !.fontSize = fontSize, !.textLength = textLength]

\* KText.ComputedFontSize
ComputedFontSize(t) ==
    CASE t.textType = "H1" -> 32
      [] t.textType = "H2" -> 28
      [] t.textType = "H3" -> 24
      [] t.textType = "H4" -> 20
      [] t.textType = "H5" -> 18
      [] OTHER -> t.fontSize

\* GetCenterX() of each class
GetCenterX(e) ==
    CASE e.type \in {"rectangle", "image"} -> e.x + e.width \div 2
      [] e.type = "circle" -> e.x
      [] e.type = "line" -> (e.x + e.x2) \div 2
      [] OTHER -> e.x + (e.textLength * ComputedFontSize(e) * 3) \div 10

\* GetCenterY() of each class
GetCenterY(e) ==
    CASE e.type \in {"rectangle", "image"} -> e.y + e.height \div 2
      [] e.type = "circle" -> e.y
      [] e.type = "line" -> (e.y + e.y2) \div 2
      [] OTHER -> e.y - (ComputedFontSize(e) * 6) \div 10

\* a transform that always turns about the origin
GetTransformAboutOrigin(e) ==
    IF e.rotation = 0 THEN << >> ELSE <<"rotate", e.rotation, 0, 0>>

\* DesignElement.GetTransform(): the empty string, or the text
\* rotate({Rotation} {GetCenterX()} {GetCenterY()}) as the tuple of its parts
GetTransform(e) ==
    IF e.rotation = 0 THEN << >> ELSE <<"rotate", e.rotation, GetCenterX(e), GetCenterY(e)>>

\* an SVG element: its tag and its attributes; the transform attribute is
\* written when GetTransform() is not the empty string
SvgElement(tag, e, attributes) ==
    [tag |-> tag,
     attributes |->
        IF GetTransform(e) # << >>
        THEN [k \in DOMAIN attributes \cup {"transform"} |->
                 IF k = "transform" THEN GetTransform(e) ELSE attributes[k]]
        ELSE attributes]

GenerateRectSvg(r) ==
    SvgElement("rect", r, [id |-> r.id, x |-> r.x, y |-> r.y, width |-> r.width, height |-> r.height])

GenerateCircleSvg(c) ==
    SvgElement("circle", c, [id |-> c.id, cx |-> c.x, cy |-> c.y, r |-> c.radius])

GenerateLineSvg(l) ==
    SvgElement("line", l, [id |-> l.id, x1 |-> l.x, y1 |-> l.y, x2 |-> l.x2, y2 |-> l.y2])

GenerateTextSvg(t) ==
    SvgElement("text", t, [id |-> t.id, x |-> t.x, y |-> t.y])

GenerateImageSvg(i) ==
    SvgElement("image", i, [id |-> i.id, x |-> i.x, y |-> i.y, width |-> i.width, height |-> i.height])

\* the switch of GenerateSvg over the element's class
ShapeSvg(e) ==
    CASE e.type = "rectangle" -> GenerateRectSvg(e)
      [] e.type = "circle" -> GenerateCircleSvg(e)
      [] e.type = "line" -> GenerateLineSvg(e)
      [] e.type = "text" -> GenerateTextSvg(e)
      [] e.type = "image" -> GenerateImageSvg(e)

\* the elements a document is drawn from: every class, unrotated and rotated
ShapeInputs ==
    { Shape("rectangle", 10, 10, rotation, 100, 50, 0, 0, 0, 2) : rotation \in {0, 90} }
    \cup { Shape("image", 0, 0, rotation, 20, 40, 0, 0, 0, 0) : rotation \in {0, 30} }
    \cup { Shape("circle", 50, 60, rotation, 0, 0, 20, 0, 0, 2) : rotation \in {0, 45} }
    \cup { Shape("line", 0, 0, rotation, 0, 0, 0, 100, 0, 2) : rotation \in {0, 90} }
    \cup { TextShape(10, 40, 0, "Paragraph", 20, 5), TextShape(10, 40, 15, "H4", 16, 5) }

\* the user draws one more element; its Id is new
DrawShape ==
    /\ Len(drawn) < MaxShapes
    /\ \E e \in ShapeInputs : drawn' = Append(drawn, [e EXCEPT !.id = Len(drawn) + 1])
    /\ UNCHANGED <<svgResult, hitResult, mgrVars, hostVars, lastConfirm, askVars, designVars, saveVars, viewVars>>

\* the user deletes the element drawn last
EraseShape ==
    /\ drawn # << >>
    /\ drawn' = SubSeq(drawn, 1, Len(drawn) - 1)
    /\ UNCHANGED <<svgResult, hitResult, mgrVars, hostVars, lastConfirm, askVars, designVars, saveVars, viewVars>>

\* GenerateSvg() of the document that holds the drawn elements: the nodes it
\* appends, and the markup of each element
CallGenerateSvg ==
    /\ svgResult' = [made |-> TRUE, elements |-> drawn,
                     nodes |-> GenerateSvg([elements |-> drawn], Null),
                     shapes |-> [n \in 1..Len(drawn) |-> ShapeSvg(drawn[n])]]
    /\ UNCHANGED <<drawn, hitResult, mgrVars, hostVars, lastConfirm, askVars, designVars, saveVars, viewVars>>

\* ---------------------------------------------------------- ContainsPoint
Max(a, b) == IF a >= b THEN a ELSE b
Min(a, b) == IF a <= b THEN a ELSE b
Abs(a) == IF a >= 0 THEN a ELSE 0 - a

RECURSIVE Gcd(_, _)
Gcd(a, b) == IF b = 0 THEN a ELSE Gcd(b, a % b)

\* a rectangle hit test that leaves the border out
RectangleContainsPointInside(r, px, py) ==
    px > r.x /\ px < r.x + r.width /\ py > r.y /\ py < r.y + r.height

\* KRectangle.ContainsPoint(px, py); KImage.ContainsPoint is the same test
RectangleContainsPoint(r, px, py) ==
    px >= r.x /\ px <= r.x + r.width /\ py >= r.y /\ py <= r.y + r.height

\* KCircle.ContainsPoint(px, py)
CircleContainsPoint(c, px, py) ==
    (px - c.x) * (px - c.x) + (py - c.y) * (py - c.y) <= c.radius * c.radius

\* the distance to the whole line through the two points, without the clamp
DistanceToLine(px, py, x1, y1, x2, y2) ==
    LET dx == x2 - x1
        dy == y2 - y1
        lengthSq == dx * dx + dy * dy
        dot == (px - x1) * dx + (py - y1) * dy
        g == Gcd(Abs(dot), lengthSq)
        tn == dot \div g
        td == lengthSq \div g
    IN IF lengthSq = 0
       THEN [num |-> (px - x1) * (px - x1) + (py - y1) * (py - y1), den |-> 1]
       ELSE [num |-> ((px - x1) * td - tn * dx) * ((px - x1) * td - tn * dx)
                     + ((py - y1) * td - tn * dy) * ((py - y1) * td - tn * dy),
             den |-> td * td]

\* KLine.DistanceToLineSegment(px, py, x1, y1, x2, y2). The square root is not
\* taken: the result is the square of the distance, as the fraction num / den.
\* t is the fraction tn / td in lowest terms, clamped to [0, 1]; the projected
\* point is (x1 + t * dx, y1 + t * dy).
DistanceToLineSegment(px, py, x1, y1, x2, y2) ==
    LET dx == x2 - x1
        dy == y2 - y1
        lengthSq == dx * dx + dy * dy
        dot == Max(0, Min(lengthSq, (px - x1) * dx + (py - y1) * dy))
        g == Gcd(dot, lengthSq)
        tn == dot \div g
        td == lengthSq \div g
    IN IF lengthSq = 0
       THEN [num |-> (px - x1) * (px - x1) + (py - y1) * (py - y1), den |-> 1]
       ELSE [num |-> ((px - x1) * td - tn * dx) * ((px - x1) * td - tn * dx)
                     + ((py - y1) * td - tn * dy) * ((py - y1) * td - tn * dy),
             den |-> td * td]

\* KLine.ContainsPoint(px, py): dist <= tolerance, both sides squared
LineContainsPoint(l, px, py) ==
    LET tolerance == Max(l.strokeWidth * 2, 10)
        dist == DistanceToLineSegment(px, py, l.x, l.y, l.x2, l.y2)
    IN dist.num <= tolerance * tolerance * dist.den

\* ContainsPoint of the element's class
ContainsPoint(e, px, py) ==
    CASE e.type \in {"rectangle", "image"} -> RectangleContainsPoint(e, px, py)
      [] e.type = "circle" -> CircleContainsPoint(e, px, py)
      [] e.type = "line" -> LineContainsPoint(e, px, py)

\* the elements that are hit-tested
HitShapes ==
    { Shape("rectangle", 10, 10, 0, 100, 50, 0, 0, 0, 2),
      Shape("rectangle", 0, 0, 0, 0, 0, 0, 0, 0, 2),
      Shape("image", 10, 10, 0, 40, 20, 0, 0, 0, 0),
      Shape("circle", 50, 0, 0, 0, 0, 10, 0, 0, 2),
      Shape("line", 0, 0, 0, 0, 0, 0, 100, 0, 2),
      Shape("line", 0, 0, 0, 0, 0, 0, 30, 40, 8),
      Shape("line", 50, 0, 0, 0, 0, 0, 50, 0, 2) }

\* the points the pointer is at
ProbePoints ==
    { <<50, 30>>, <<10, 10>>, <<200, 30>>, <<110, 60>>, <<111, 60>>, <<9, 30>>, <<50, 61>>,
      <<50, 0>>, <<50, 9>>, <<50, 10>>, <<50, 11>>, <<50, 20>>, <<110, 0>>, <<115, 0>>,
      <<0 - 10, 0>>, <<0 - 8, 6>>, <<10, 30>>, <<46, 28>> }

\* a pointer event asks an element whether it contains the point
CallContainsPoint ==
    /\ \E e \in HitShapes, p \in ProbePoints :
          hitResult' = [made |-> TRUE, shape |-> e, px |-> p[1], py |-> p[2],
                        hit |-> ContainsPoint(e, p[1], p[2])]
    /\ UNCHANGED <<drawn, svgResult, mgrVars, hostVars, lastConfirm, askVars, designVars, saveVars, viewVars>>

NextSvg ==
    \/ DrawShape
    \/ EraseShape
    \/ CallGenerateSvg

InitShapes ==
    /\ drawn = << >>
    /\ svgResult = [made |-> FALSE, elements |-> << >>, nodes |-> << >>, shapes |-> << >>]
    /\ hitResult = [made |-> FALSE, shape |-> Shape("none", 0, 0, 0, 0, 0, 0, 0, 0, 0),
                    px |-> 0, py |-> 0, hit |-> FALSE]

\* ------------------------------------------------------ handleSaveDesign
\* a file path: the directory and the file name split at its dots
Path(dir, parts) == [dir |-> dir, parts |-> parts]
NoPath == Path("", << >>)

\* the locations the save dialog can return
SavePaths == { Path("d", <<"out">>), Path("d", <<"out", "svg">>), Path("e", <<"out", "txt">>) }

\* fsPath.replace(/\.svg$/, '')
ReplaceSvgSuffix(path) ==
    IF Len(path.parts) >= 2 /\ path.parts[Len(path.parts)] = "svg"
    THEN Path(path.dir, SubSeq(path.parts, 1, Len(path.parts) - 1))
    ELSE path

\* `${basePath}.svg` and `${basePath}.md`
WithExtension(basePath, extension) == Path(basePath.dir, Append(basePath.parts, extension))

\* path.basename(svgPath)
Basename(path) == path.parts

\* a string that is truthy in JavaScript
Truthy(v) == v \notin {Undefined, ""}

\* createMarkdownContent that always writes the prompt section
CreateMarkdownContentAlwaysPrompt(title, svgPath, prompt, json) ==
    << [kind |-> "heading", text |-> OrElse(title, "Untitled Design")],
       [kind |-> "image", target |-> Basename(svgPath)],
       [kind |-> "prompt", text |-> prompt],
       [kind |-> "json", text |-> json] >>

\* createMarkdownContent(title, svgPath, prompt, json): the sections of the
\* text in the order they are appended
CreateMarkdownContent(title, svgPath, prompt, json) ==
    << [kind |-> "heading", text |-> OrElse(title, "Untitled Design")],
       [kind |-> "image", target |-> Basename(svgPath)] >>
    \o (IF Truthy(prompt) THEN << [kind |-> "prompt", text |-> prompt] >> ELSE << >>)
    \o << [kind |-> "json", text |-> json] >>

\* the saveDesign messages a surface posts
SaveDesignMessages(p) ==
    { [panel |-> p, type |-> "saveDesign", title |-> title, svg |-> "svg", json |-> "json",
       prompt |-> prompt] : title \in {"", "A"}, prompt \in {Undefined, "", "p1"} }

\* the Save button of the editor
SurfaceSave(p) ==
    /\ panels[p] = "live"
    /\ surface[p].state = "ready"
    /\ posted < MaxPosts
    /\ \E m \in SaveDesignMessages(p) : toHost' = Append(toHost, m)
    /\ posted' = posted + 1
    /\ UNCHANGED <<mgrVars, toolVars, panelVars, toSurface, handlerVars, lastConfirm, askVars, designVars, shapeVars, saveVars, viewVars>>

\* case 'saveDesign': handleSaveDesign runs up to its save dialog
HandleSaveDesign ==
    /\ Delivered("saveDesign")
    /\ saves' = Append(saves, Head(toHost))
    /\ UNCHANGED <<mgrVars, toolVars, panelVars, toSurface, posted, handlerVars, lastConfirm, askVars, designVars, shapeVars, written, lastSave, viewVars>>

\* what the file system and the editor do with a save: everything works, the
\* first or the second writeFileSync throws, or showTextDocument rejects
FsOutcomes == {"ok", "svgFails", "mdFails", "showFails"}

\* a save that reports success whatever happened
SaveNoticeAlwaysSaved(fs) == "Design saved to"

\* the notification a save that got a location shows last:
\* showInformationMessage when nothing threw, showErrorMessage in the catch block
SaveNotice(fs) == IF fs = "ok" THEN "Design saved to" ELSE "Failed to save design"

\* the writeFileSync calls of a save that returned
FilesWritten(m, saveUri, fs) ==
    LET basePath == ReplaceSvgSuffix(saveUri)
        svgPath == WithExtension(basePath, "svg")
        mdPath == WithExtension(basePath, "md")
    IN (IF fs # "svgFails"
        THEN << [path |-> svgPath, content |-> m.svg] >> ELSE << >>)
       \o (IF fs \in {"ok", "showFails"}
           THEN << [path |-> mdPath,
                    content |-> CreateMarkdownContent(m.title, svgPath, m.prompt, m.json)] >>
           ELSE << >>)

\* the save dialog of a handleSaveDesign call closes: without a location the
\* handler returns; with one it writes the two files, shows 'Design saved to'
\* and opens the Markdown file; an exception of any of these is caught and
\* shown as 'Failed to save design'
SaveDialogClosed(k) ==
    /\ HostIdle
    /\ k \in 1..Len(saves)
    /\ \E saveUri \in {NoPath} \cup SavePaths, fs \in FsOutcomes :
          IF saveUri = NoPath
          THEN /\ lastSave' = [n |-> lastSave.n + 1, outcome |-> "cancelled", saveUri |-> NoPath,
                               msg |-> saves[k], wrote |-> << >>]
               /\ UNCHANGED <<written, notice>>
          ELSE /\ lastSave' = [n |-> lastSave.n + 1, outcome |-> IF fs = "ok" THEN "saved" ELSE "failed",
                               saveUri |-> saveUri, msg |-> saves[k],
                               wrote |-> FilesWritten(saves[k], saveUri, fs)]
               /\ written' = written \o FilesWritten(saves[k], saveUri, fs)
               /\ notice' = SaveNotice(fs)
    /\ saves' = RemoveAt(saves, k)
    /\ UNCHANGED <<mgrVars, toolVars, panelVars, channelVars, confirms, hostLog, files, lastConfirm, askVars, designVars, shapeVars, viewVars>>

NoSave == [n |-> 0, outcome |-> "none", saveUri |-> NoPath,
           msg |-> [panel |-> 0, type |-> "none", title |-> "", svg |-> "", json |-> "",
                    prompt |-> Undefined],
           wrote |-> << >>]

InitSaves ==
    /\ saves = << >>
    /\ written = << >>
    /\ lastSave = NoSave

InitHost ==
    /\ invs = [i \in InvokeIds |-> IdleInvocation]
    /\ microtasks = << >>
    /\ panel = 0
    /\ panels = [p \in PanelIds |-> "none"]
    /\ surface = [p \in PanelIds |-> NoSurface]
    /\ toHost = << >>
    /\ toSurface = << >>
    /\ posted = 0
    /\ confirms = << >>
    /\ hostLog = "KazoDesignEditorProvider initialized"
    /\ notice = ""
    /\ files = {}
    /\ lastConfirm = NoConfirm
    /\ clock = 0
    /\ asks = [k \in AskIds |-> UnusedAsk]
    /\ askTable = [s \in SurfaceIds |-> [r \in ClockValues |-> 0]]
    /\ askHandlers = << >>
    /\ InitDesign
    /\ InitShapes
    /\ InitSaves
    /\ InitViews

\* the steps every specification of the host shares
NextCommon ==
    \/ \E p \in PanelIds : ClosePanel(p)
    \/ \E i \in InvokeIds : InvokeNotified(i)
    \/ \E i \in InvokeIds : TokenFire(i)
    \/ JobAdopt
    \/ JobSettleOuter
    \/ JobRaceReact
    \/ JobResume
    \/ \E p \in PanelIds : SurfaceBoot(p)
    \/ DropMessage
    \/ HandleReady
    \/ HandleConfirmSketch
    \/ \E k \in 1..MaxPosts : ConfirmChoice(k)
    \/ \E k \in 1..MaxPosts : ConfirmSaved(k)

\* the two sketch tools under every input, the surfaces confirming sketches
NextTools ==
    \/ NextCommon
    \/ \E i \in InvokeIds : InvokeStart(i, RequestSketchInputs \cup SelectOptionInputs)
    \/ \E i \in InvokeIds : InvokePickedMany(i)
    \/ \E i \in InvokeIds : InvokePickedOne(i)
    \/ \E p \in PanelIds : SurfacePost(p, {"confirmSketch"})

\* the provider under every message type, with commands and restored panels
NextProvider ==
    \/ NextCommon
    \/ CommandOpenEditor
    \/ RevivePanel
    \/ \E i \in InvokeIds : InvokeStart(i, RequestSketchInputs)
    \/ \E p \in PanelIds : SurfacePost(p, {"confirmSketch", "exportResult", "log", "error", "bogus"})
    \/ HandleLog
    \/ HandleError
    \/ HandleExportResult
    \/ HandleUnknown
    \/ \E p \in PanelIds : SurfaceSave(p)
    \/ HandleSaveDesign
    \/ \E k \in 1..MaxPosts : SaveDialogClosed(k)

\* ------------------------------------------- the manager called directly
InitManager ==
    /\ pendingRequest = NoRequest
    /\ requests = [i \in RequestIds |-> UnusedPromise]
    /\ lastCall = [op |-> "none", slot |-> 0]
    /\ InitHost

CallRequestSketch ==
    \E in \in SketchInputs :
        /\ NextRequestId(Manager) <= MaxRequests
        /\ SetManager(RequestSketch(Manager, in[1], in[2]))
        /\ lastCall' = [op |-> "requestSketch", slot |-> pendingRequest.id]
        /\ UNCHANGED <<hostVars, lastConfirm, askVars, designVars, shapeVars, saveVars, viewVars>>

CallCompleteSketch ==
    \E result \in CompleteInputs :
        /\ SetManager(CompleteSketch(Manager, result))
        /\ lastCall' = [op |-> "completeSketch", slot |-> pendingRequest.id]
        /\ UNCHANGED <<hostVars, lastConfirm, askVars, designVars, shapeVars, saveVars, viewVars>>

CallCancelSketch ==
    /\ SetManager(CancelSketch(Manager))
    /\ lastCall' = [op |-> "cancelSketch", slot |-> pendingRequest.id]
    /\ UNCHANGED <<hostVars, lastConfirm, askVars, designVars, shapeVars, saveVars, viewVars>>

NextManager ==
    \/ CallRequestSketch
    \/ CallCompleteSketch
    \/ CallCancelSketch

SpecManager == InitManager /\ [][NextManager]_vars

\* the AI tools racing sketch requests against confirmations and cancellations
SpecTools == InitManager /\ [][NextTools]_vars

\* the editor provider handling every message type
SpecProvider == InitManager /\ [][NextProvider]_vars

\* the surfaces asking the user through the host
NextAsk ==
    \/ CommandOpenEditor
    \/ \E p \in PanelIds : ClosePanel(p)
    \/ \E p \in PanelIds : SurfaceBoot(p)
    \/ HandleReady
    \/ DropMessage
    \/ \E s \in SurfaceIds, questionType \in {"quickPick", "input"}, hasOptions \in BOOLEAN :
           AskUser(s, questionType, hasOptions)
    \/ ClockTick
    \/ HandleAskUser
    \/ \E n \in 1..MaxAsks : AskAnswered(n)
    \/ SurfaceReceive
    \/ DropToSurface

SpecAsk == InitManager /\ [][NextAsk]_vars

\* every step of the host and of the message channels is eventually taken, and
\* every dialog is eventually closed; nothing forces the surface or the user
\* to ask, open or close anything
FairSpecAsk ==
    /\ SpecAsk
    /\ WF_vars(HandleReady)
    /\ WF_vars(DropMessage)
    /\ WF_vars(HandleAskUser)
    /\ WF_vars(\E n \in 1..MaxAsks : AskAnswered(n))
    /\ WF_vars(SurfaceReceive)
    /\ WF_vars(DropToSurface)

\* the provider loading designs into its page and asking it for exports
NextWebview ==
    \/ CommandOpenEditor
    \/ \E p \in PanelIds : ClosePanel(p)
    \/ \E p \in PanelIds : SurfaceBoot(p)
    \/ HandleReady
    \/ DropMessage
    \/ PostLoadDesign("json")
    \/ RequestExport
    \/ SurfaceReceive
    \/ DropToSurface
    \/ \E p \in PanelIds : ExportDone(p)
    \/ HandleExportResult

SpecWebview == InitManager /\ [][NextWebview]_vars

\* the design service of one editor surface under every operation
SpecDesign == InitManager /\ [][NextDesign]_vars

\* documents built, exported and loaded back
NextRoundTrip ==
    \/ CallEnterView
    \/ ClockTick
    \/ CallAddElement
    \/ CallSetMcpContext(McpContextInputs)
    \/ CallExportDesign
    \/ CallLoadExported

SpecRoundTrip == InitManager /\ [][NextRoundTrip]_vars

\* documents of every element class turned into SVG
SpecSvg == InitManager /\ [][NextSvg]_vars

\* elements of every class asked about points inside, outside and on their edge
SpecHitTest == InitManager /\ [][CallContainsPoint]_vars

\* --------------------------------------------------------------- claims

\* C1: a requestSketch issued while request A is pending rejects A with the
\* supersession error in the same step and installs the new request B as the
\* pending one; while no further requestSketch is issued, B leaves the pending
\* state only through a completeSketch or cancelSketch call, which resolves it.
C1_SupersedeThenPending ==
    [][ /\ \A a \in RequestIds :
             (lastCall'.op = "requestSketch" /\ pendingRequest.id = a) =>
                 /\ requests'[a].state = "rejected"
                 /\ requests'[a].reason = SupersessionError
                 /\ pendingRequest'.id \notin {0, a}
                 /\ requests'[pendingRequest'.id].state = "pending"
        /\ \A b \in RequestIds :
             (/\ requests[b].state = "pending"
              /\ requests'[b].state # "pending"
              /\ NextRequestId([requests |-> requests']) = NextRequestId(Manager)) =>
                 /\ lastCall'.op \in {"completeSketch", "cancelSketch"}
                 /\ requests'[b].state = "resolved"
      ]_vars

\* C1 witness: request 1 was superseded by request 2, which is still pending
C1_Witness ==
    /\ requests[1].state = "rejected"
    /\ requests[1].reason = SupersessionError
    /\ pendingRequest.id = 2
    /\ requests[2].state = "pending"

\* C2: at most one request is unsettled, it is the one in the slot, and no
\* promise is settled more than once.
C2_SingleSlot ==
    /\ \A i \in RequestIds : requests[i].state = "pending" => pendingRequest.id = i
    /\ pendingRequest # NoRequest => requests[pendingRequest.id].state = "pending"
    /\ \A i \in RequestIds : requests[i].settles <= 1
    /\ \A i \in RequestIds : requests[i].state \in {"resolved", "rejected"} => requests[i].settles = 1

\* C2 witness: one superseded request, one completed request, one pending in the slot
C2_Witness ==
    /\ \E i \in RequestIds : requests[i].state = "rejected"
    /\ \E i \in RequestIds : requests[i].state = "resolved" /\ requests[i].value.success
    /\ pendingRequest # NoRequest
    /\ requests[pendingRequest.id].state = "pending"

\* C4: cancelSketch with a pending request resolves it with success = false and
\* the non-empty 'User cancelled...' error and empties the slot; cancelSketch and
\* completeSketch with an empty slot change neither the slot nor any promise.
C4_CancelResolves ==
    [][ /\ (lastCall'.op = "cancelSketch" /\ pendingRequest # NoRequest) =>
             /\ requests'[pendingRequest.id].state = "resolved"
             /\ requests'[pendingRequest.id].value.success = FALSE
             /\ requests'[pendingRequest.id].value.error = UserCancelledError
             /\ requests'[pendingRequest.id].value.error \notin {"", Undefined}
             /\ pendingRequest' = NoRequest
             /\ \A i \in RequestIds \ {pendingRequest.id} : requests'[i] = requests[i]
        /\ (lastCall'.op \in {"cancelSketch", "completeSketch"} /\ pendingRequest = NoRequest) =>
             UNCHANGED <<pendingRequest, requests>>
      ]_vars

\* C4 witness: a pending request was cancelled, and cancelSketch was then
\* called again on the empty slot
C4_Witness ==
    /\ lastCall = [op |-> "cancelSketch", slot |-> 0]
    /\ pendingRequest = NoRequest
    /\ \E i \in RequestIds : requests[i].state = "resolved" /\ requests[i].value = CancelResult

HostQuiescent == microtasks = << >> /\ toHost = << >> /\ confirms = << >>

\* C5 as stated: once every editor panel is closed and the host has run what
\* it had to run, no sketch request is left pending (closing the panel
\* cancelled it).
C5_ClosedPanelLeavesNoRequest ==
    (HostQuiescent /\ \A p \in PanelIds : panels[p] # "live") => pendingRequest = NoRequest

\* invocation i's request was rejected by a newer requestSketch
Superseded(i) == invs[i].req # 0 /\ requests[invs[i].req].state = "rejected"

\* C6: an invocation whose token fired while its request was pending, or whose
\* request was superseded, has returned once the promise jobs have drained, and
\* its JSON result has success = false and a non-empty error.
C6_CancelledInvokeReturnsFailure ==
    \A i \in InvokeIds :
        ((invs[i].firedPending \/ Superseded(i)) /\ HostIdle) =>
            /\ invs[i].pc = "done"
            /\ invs[i].cancelP = "rejected" => invs[i].race.state # "pending"
            /\ "success" \in DOMAIN invs[i].result
            /\ invs[i].result.success = FALSE
            /\ "error" \in DOMAIN invs[i].result
            /\ invs[i].result.error \notin {"", Undefined}

\* C6 witness: one invocation was superseded and the SelectOptionTool invocation
\* that superseded it was cancelled by its token in the sketch branch
C6_Witness ==
    \E i, j \in InvokeIds :
        /\ Superseded(i) /\ invs[i].pc = "done"
        /\ invs[j].tool = "selectOption" /\ invs[j].firedPending /\ invs[j].pc = "done"
        /\ HostIdle

\* C7: handling a message whose type handleMessage has no case for logs the
\* type and changes nothing else: nothing is posted to the surface, the panel
\* reference, the slot and the promises stay as they were.
C7_UnknownTypeIgnored ==
    [][ (/\ HostIdle
         /\ toHost # << >>
         /\ panels[Head(toHost).panel] = "live"
         /\ Head(toHost).type \notin KnownTypes
         /\ toHost' = Tail(toHost)) =>
            /\ hostLog' = UnknownTypeLog(Head(toHost).type)
            /\ UNCHANGED <<panel, panels, pendingRequest, requests, toSurface>>
            /\ UNCHANGED <<invs, microtasks, confirms, notice, files>>
      ]_vars

\* C7 witness: an unknown message was handled while a request was pending and
\* the panel was open
C7_Witness ==
    /\ hostLog = "Unknown message type: bogus"
    /\ pendingRequest # NoRequest
    /\ panel # 0

\* C10 as stated: while the request of an invocation is pending and the
\* surface of the open panel has booted and received everything the host sent,
\* the document's title and prompt are the request's title and prompt.
C10_McpContextApplied ==
    \A i \in InvokeIds :
        (/\ invs[i].pc = "waiting"
         /\ pendingRequest.id = invs[i].req
         /\ panel # 0
         /\ surface[panel].state = "ready"
         /\ HostIdle /\ toHost = << >> /\ toSurface = << >>) =>
            /\ surface[panel].title = invs[i].title
            /\ surface[panel].prompt = invs[i].prompt

\* ask k waits: its promise is unsettled and its page still exists
AskWaiting(k) == asks[k].state = "pending" /\ SurfaceAlive(asks[k].surface)

\* C8: the host answers every askUser message it handles with one
\* userResponse that carries the message's requestId and the dialog's result,
\* and sends no other userResponse; on the surface a userResponse resolves the
\* promise registered under its requestId with the carried value and removes
\* the entry, and changes no other promise or entry; a userResponse whose
\* requestId has no entry changes nothing.
C8_ResponsesCorrelate ==
    [][ /\ \A k \in AskIds : asks'[k].responses <= 1
        /\ Len(askHandlers') < Len(askHandlers) =>
             \E n \in 1..Len(askHandlers) :
                /\ askHandlers' = RemoveAt(askHandlers, n)
                /\ panels[askHandlers[n].panel] = "live" =>
                     /\ toSurface' # toSurface
                     /\ toSurface' = Append(toSurface, toSurface'[Len(toSurface')])
                     /\ toSurface'[Len(toSurface')].type = "userResponse"
                     /\ toSurface'[Len(toSurface')].panel = askHandlers[n].panel
                     /\ toSurface'[Len(toSurface')].requestId = askHandlers[n].requestId
                     /\ toSurface'[Len(toSurface')].requestId = asks[askHandlers[n].ask].requestId
        /\ Len(toSurface') > Len(toSurface) => Len(askHandlers') = Len(askHandlers) - 1
        /\ (toSurface # << >> /\ toSurface' = Tail(toSurface)
              /\ panels[Head(toSurface).panel] = "live") =>
             LET m == Head(toSurface)
                 k == askTable[m.panel][m.requestId]
             IN /\ \A j \in AskIds : j # k => asks'[j] = asks[j]
                /\ \A s \in SurfaceIds, r \in ClockValues :
                       (s # m.panel \/ r # m.requestId) => askTable'[s][r] = askTable[s][r]
                /\ askTable'[m.panel][m.requestId] = 0
                /\ k # 0 =>
                     /\ asks[k].requestId = m.requestId /\ asks[k].surface = m.panel
                     /\ asks'[k].state = "resolved"
                     /\ asks'[k].value = m.value
                     /\ asks'[k].settles = 1
        /\ (\E k \in AskIds : asks[k].state = "pending" /\ asks'[k].state = "resolved") =>
             (toSurface # << >> /\ toSurface' = Tail(toSurface))
      ]_vars

\* C8 witness: of two askUser calls of one surface with different requestIds,
\* one was resolved with the value typed in the host's dialog while the other
\* is still waiting, and a response whose requestId had no entry was received
C8_Witness ==
    \E k, j \in AskIds :
        /\ asks[k].state = "resolved" /\ asks[k].value = "typed" /\ asks[k].responses = 1
        /\ askTable[asks[k].surface][asks[k].requestId] = 0
        /\ AskWaiting(j) /\ asks[j].surface = asks[k].surface
        /\ asks[j].requestId # asks[k].requestId

\* C9 as stated: an askUser call does not wait forever: its promise settles
\* (or its page goes away) and its resolver leaves the table.
C9_AskSettles ==
    \A k \in AskIds :
        AskWaiting(k) ~>
            \/ ~SurfaceAlive(asks[k].surface)
            \/ asks[k].state = "resolved" /\ askTable[asks[k].surface][asks[k].requestId] # k

\* the elements of the document that carry the selected flag
SelectedOnes == {n \in 1..Len(Document.elements) : Document.elements[n].isSelected}

\* C11: at most one element of the document has isSelected, and an element of
\* the document has isSelected exactly when it is the service's SelectedElement.
C11_SingleSelection ==
    /\ Cardinality(SelectedOnes) <= 1
    /\ \A n \in 1..Len(Document.elements) :
           Document.elements[n].isSelected <=> Document.elements[n].ref = SelectedElement

\* C11 witness: a second element was selected after another one had been, in
\* a document of several elements
C11_Witness ==
    /\ lastOp.op = "SelectElement"
    /\ Len(Document.elements) >= 2
    /\ SelectedElement # 0
    /\ SelectedElement # Document.elements[Len(Document.elements)].ref
    /\ Cardinality(SelectedOnes) = 1

\* an element without its transient flag
Unselected(e) == [e EXCEPT !.isSelected = FALSE]

\* C12: addElement puts the new element last, leaves the elements before it in
\* place (only the selected flag of the element selected before is cleared),
\* gives the new element the current view context as parent, makes it the one
\* selected element and sets modifiedAt to the current time.
C12_AddAppendsAndSelects ==
    [][ CallAddElement =>
          /\ Len(Document'.elements) = Len(Document.elements) + 1
          /\ \A n \in 1..Len(Document.elements) :
                 Unselected(Document'.elements[n]) = Unselected(Document.elements[n])
          /\ Document'.elements[Len(Document'.elements)].ref = nextRef
          /\ Document'.elements[Len(Document'.elements)].parent = CurrentViewContext
          /\ Document'.elements[Len(Document'.elements)].isSelected
          /\ SelectedElement' = nextRef
          /\ \A n \in 1..Len(Document.elements) : ~Document'.elements[n].isSelected
          /\ Document'.modifiedAt = clock
      ]_vars

\* C12 witness: an element added inside a view, after the clock advanced, is
\* the last element, has the view as parent and is the selected one
C12_Witness ==
    /\ lastOp.op = "AddElement"
    /\ Len(Document.elements) >= 2
    /\ CurrentViewContext # Null
    /\ clock > 0
    /\ Document.modifiedAt = clock
    /\ Document.elements[Len(Document.elements)].parent = CurrentViewContext
    /\ Document.elements[Len(Document.elements)].ref = SelectedElement
    /\ Document.elements[Len(Document.elements)].ref = nextRef - 1

\* C13: removeElement(e) leaves the document without e and with every other
\* element as it was and where it was; the selection becomes empty if e was
\* selected and stays what it was otherwise.
C13_RemoveExactlyOne ==
    [][ CallRemoveElement =>
          /\ Document'.elements =
                 SelectSeq(Document.elements, LAMBDA e : e.ref # lastOp'.ref)
          /\ SelectedElement = lastOp'.ref => SelectedElement' = 0
          /\ SelectedElement # lastOp'.ref => SelectedElement' = SelectedElement
      ]_vars

\* C13 witness: of two elements the first was removed while the second was
\* selected, and the second is still the selected one
C13_Witness ==
    /\ lastOp = Op("RemoveElement", 1, Null)
    /\ Len(Document.elements) = 1
    /\ Document.elements[1].ref = 2
    /\ Document.elements[1].parent = Null
    /\ SelectedElement = 2
    /\ Document.elements[1].isSelected

\* C14: clearCanvas removes the elements whose parent is the current view
\* context and keeps every other element, in order, as it was (but
\* unselected): at root the elements of views survive, inside a view the root
\* elements and the elements of other views survive.
C14_ClearRemovesCurrentViewOnly ==
    [][ CallClearCanvas =>
          Document'.elements =
              SelectSeq([n \in 1..Len(Document.elements) |-> Unselected(Document.elements[n])],
                        LAMBDA e : e.parent # CurrentViewContext)
      ]_vars

\* C14 witness: a clear at root removed a root element and left an element of
\* view V, or a clear inside V left a root element
C14_Witness ==
    /\ lastOp.op = "ClearCanvas"
    /\ Len(Document.elements) >= 1
    /\ Document.elements[1].parent # CurrentViewContext
    /\ nextRef - 1 > Len(Document.elements)

\* an element named name that is a View is in the document
ViewExists(name) ==
    \E n \in 1..Len(Document.elements) :
        Document.elements[n].name = name /\ Document.elements[n].meaning = "View"

\* C15: enterView(name) changes nothing when no View element has that name;
\* otherwise it appends the previous context to the breadcrumb if that context
\* was not null, sets the context to name and clears the selection.
C15_EnterView ==
    [][ CallEnterView =>
          IF ~ViewExists(lastOp'.name)
          THEN UNCHANGED <<Document, SelectedElement, CurrentViewContext, ViewBreadcrumb>>
          ELSE /\ ViewBreadcrumb' = IF CurrentViewContext # Null
                                    THEN Append(ViewBreadcrumb, CurrentViewContext)
                                    ELSE ViewBreadcrumb
               /\ CurrentViewContext' = lastOp'.name
               /\ SelectedElement' = 0
               /\ \A n \in 1..Len(Document'.elements) : ~Document'.elements[n].isSelected
      ]_vars

\* C15 witness: a view was entered from inside a view, so the breadcrumb grew,
\* and the only element of that name that is no View did not count
C15_Witness ==
    /\ lastOp.op = "EnterView"
    /\ CurrentViewContext = lastOp.name
    /\ ViewBreadcrumb # << >>
    /\ SelectedElement = 0

\* C16: exitToParent moves the breadcrumb's last entry into the context, or
\* sets the context to null when the breadcrumb is empty; exitToRoot sets the
\* context to null and empties the breadcrumb; both clear the selection.
C16_Exit ==
    [][ /\ CallExitToParentView =>
              /\ IF ViewBreadcrumb # << >>
                 THEN /\ CurrentViewContext' = ViewBreadcrumb[Len(ViewBreadcrumb)]
                      /\ ViewBreadcrumb' = SubSeq(ViewBreadcrumb, 1, Len(ViewBreadcrumb) - 1)
                 ELSE /\ CurrentViewContext' = Null
                      /\ ViewBreadcrumb' = << >>
              /\ SelectedElement' = 0
              /\ \A n \in 1..Len(Document'.elements) : ~Document'.elements[n].isSelected
        /\ CallExitToRoot =>
              /\ CurrentViewContext' = Null
              /\ ViewBreadcrumb' = << >>
              /\ SelectedElement' = 0
              /\ \A n \in 1..Len(Document'.elements) : ~Document'.elements[n].isSelected
      ]_vars

\* C16 witness: exitToParent popped a breadcrumb of two entries
C16_Witness ==
    /\ lastOp.op = "ExitToParentView"
    /\ Len(ViewBreadcrumb) = 1
    /\ CurrentViewContext # Null

\* the elements an export holds: one SVG primitive per element, and one JSON
\* object per element, in document order
ExportHoldsEveryElement(S) ==
    /\ Len(ExportDesignSync(S).svg) = 2 + Len(S.Document.elements)
    /\ Len(ExportDesignSync(S).json.value.elements) = Len(S.Document.elements)
    /\ \A n \in 1..Len(S.Document.elements) :
          /\ ExportDesignSync(S).svg[n + 2].id = S.Document.elements[n].id
          /\ ExportDesignSync(S).svg[n + 2].tag = SvgTag(S.Document.elements[n].type)
          /\ ExportDesignSync(S).svg[n + 2].tag # ""
          /\ ExportDesignSync(S).json.value.elements[n].id = S.Document.elements[n].id
          /\ ExportDesignSync(S).json.value.elements[n].type = S.Document.elements[n].type
          /\ ExportDesignSync(S).json.value.elements[n].parent = S.Document.elements[n].parent

\* C17: EnterView, ExitToParentView and ExitToRoot leave the list of elements
\* as it was, element by element and in the same order, except that a selected
\* element becomes unselected; and in every state, whatever the view context,
\* the SVG and the JSON of an export hold every element of the document.
C17_NavigationKeepsElements ==
    /\ [][ (CallEnterView \/ CallExitToParentView \/ CallExitToRoot) =>
              /\ Len(Document'.elements) = Len(Document.elements)
              /\ \A n \in 1..Len(Document.elements) :
                    /\ Unselected(Document'.elements[n]) = Unselected(Document.elements[n])
                    /\ Document'.elements[n].isSelected => Document.elements[n].isSelected
         ]_vars
    /\ [] ExportHoldsEveryElement(Service)

\* view "V" has just been entered, and the document holds elements of that
\* view and elements that are not in it
C17_Witness ==
    /\ lastOp = Op("EnterView", 0, "V")
    /\ CurrentViewContext = "V"
    /\ \E n \in 1..Len(Document.elements) : Document.elements[n].parent = "V"
    /\ \E n \in 1..Len(Document.elements) : Document.elements[n].parent # "V"
    /\ Len(ExportDesignSync(Service).svg) = 2 + Len(Document.elements)

\* a document without what is not a property of it: the identity of the element
\* objects, and the transient selected flag
Persisted(doc) ==
    [doc EXCEPT !.elements = [n \in 1..Len(doc.elements) |->
                                 [doc.elements[n] EXCEPT !.ref = 0, !.isSelected = FALSE]]]

\* what the JSON text carries of a document: everything of Persisted but the
\* display-only colours of the elements
Serialized(doc) ==
    [doc EXCEPT !.elements = [n \in 1..Len(doc.elements) |->
                                 [doc.elements[n] EXCEPT !.ref = 0, !.isSelected = FALSE,
                                                         !.backgroundColor = Null]]]

C19_FailedLoadChangesNothing ==
    [][ CallLoadDesignFails =>
          /\ loadResult' \in {"error logged", "no document"}
          /\ loadResult' = "error logged" <=> lastOp'.name = "none"
          /\ UNCHANGED <<Document, SelectedElement, CurrentViewContext, ViewBreadcrumb>>
      ]_vars

\* a malformed text has just been given to LoadDesign while the document had
\* elements, one of them selected, and a modifiedAt older than the clock
C19_Witness ==
    /\ lastOp = Op("LoadDesign", 0, "none")
    /\ loadResult = "error logged"
    /\ Len(Document.elements) >= 2
    /\ SelectedElement # 0
    /\ Document.modifiedAt < clock

\* the operations that change the document's content
MutatingCall ==
    \/ CallAddElement
    \/ CallRemoveElement
    \/ CallClearCanvas
    \/ CallSetMcpContext({<<"A", Null>>})
    \/ CallLoadDesign(ToJson(SavedDocument))

\* C20: AddElement, RemoveElement, ClearCanvas, SetMcpContext and a successful
\* LoadDesign leave modifiedAt equal to the current time; no step of the
\* service makes modifiedAt smaller; and modifiedAt is never later than the
\* clock, so after a mutation it is the time of that mutation or later.
C20_ModifiedAtFollowsMutations ==
    /\ [][ MutatingCall => Document'.modifiedAt = clock ]_vars
    /\ [][ Document'.modifiedAt >= Document.modifiedAt ]_vars
    /\ [] (Document.modifiedAt <= clock)

\* an element has just been removed, at a time later than the document's
\* creation, and modifiedAt is that time
C20_Witness ==
    /\ lastOp.op = "RemoveElement"
    /\ lastOp.ref \notin RefsOf(Document.elements)
    /\ Len(Document.elements) >= 1
    /\ clock > Document.createdAt
    /\ Document.modifiedAt = clock

\* C27 as stated: the token listener of an invocation settles no request but
\* the one that invocation created; when the slot holds the request of another
\* invocation (or nothing), a cancellation of the token leaves the slot and
\* every promise as they were.
C27_TokenCancelsOwnRequestOnly ==
    [][ \A i \in InvokeIds :
           (invs'[i].fired /\ ~invs[i].fired /\ pendingRequest.id # invs[i].req) =>
               UNCHANGED <<pendingRequest, requests>>
      ]_vars

\* C28 as stated: when a handleConfirmSketch call ends, the only request it has
\* settled is the one that was pending when its message was received; a request
\* installed while the handler was in a dialog is still pending.
C28_ConfirmSettlesRequestAtReceiptOnly ==
    [][ lastConfirm'.n # lastConfirm.n =>
           \A r \in RequestIds :
              (requests[r].state = "pending" /\ r # lastConfirm'.slotAtReceipt) =>
                  requests'[r].state = "pending"
      ]_vars

\* C29 as stated: in every reachable state of the design service the view
\* context is null or is the name of an element of the document whose meaning
\* is View.
C29_ViewContextNamesAView ==
    CurrentViewContext = Null \/ ViewExists(CurrentViewContext)

\* C30 as stated: the provider's panel reference is defined exactly when a
\* live editor panel exists, and then it refers to a live panel; so no panel
\* is live while the reference is undefined.
C30_PanelReferenceTracksLivePanels ==
    /\ panel # 0 <=> (\E p \in PanelIds : panels[p] = "live")
    /\ panel # 0 => panels[panel] = "live"

\* the centre the rotation of an element turns about
CentreOf(e) ==
    CASE e.type \in {"rectangle", "image"} -> <<e.x + e.width \div 2, e.y + e.height \div 2>>
      [] e.type = "circle" -> <<e.x, e.y>>
      [] e.type = "line" -> <<(e.x + e.x2) \div 2, (e.y + e.y2) \div 2>>
      [] OTHER -> <<GetCenterX(e), GetCenterY(e)>>

\* C21: in the SVG generated for a document, the shape of an element with
\* rotation 0 has no transform attribute, and the shape of an element with a
\* rotation r other than 0 has the transform rotate(r cx cy), (cx, cy) being
\* the centre of its variant.
C21_TransformFollowsRotation ==
    svgResult.made =>
        \A n \in 1..Len(svgResult.elements) :
            /\ svgResult.elements[n].rotation = 0 =>
                  "transform" \notin DOMAIN svgResult.shapes[n].attributes
            /\ svgResult.elements[n].rotation # 0 =>
                  /\ "transform" \in DOMAIN svgResult.shapes[n].attributes
                  /\ svgResult.shapes[n].attributes.transform =
                        <<"rotate", svgResult.elements[n].rotation,
                          CentreOf(svgResult.elements[n])[1], CentreOf(svgResult.elements[n])[2]>>

\* the SVG of a rectangle {x 10, y 10, width 100, height 50} turned by 90
\* degrees, followed by a line that is not turned
C21_Witness ==
    /\ svgResult.made
    /\ Len(svgResult.elements) = 2
    /\ svgResult.elements[1].type = "rectangle"
    /\ svgResult.elements[1].rotation = 90
    /\ svgResult.shapes[1].attributes.transform = <<"rotate", 90, 60, 35>>
    /\ svgResult.elements[2].type = "line"
    /\ svgResult.elements[2].rotation = 0
    /\ DOMAIN svgResult.shapes[2].attributes = {"id", "x1", "y1", "x2", "y2"}

\* the SVG primitive of an element variant
PrimitiveOf(type) ==
    CASE type = "rectangle" -> "rect"
      [] type = "circle" -> "circle"
      [] type = "line" -> "line"
      [] type = "text" -> "text"
      [] type = "image" -> "image"

\* C22: the SVG generated for a document is the svg root, one background
\* rect, then one shape per element in document order, the i-th shape being
\* the primitive of the i-th element's variant and carrying its id; for a
\* document without elements the only rect is the background and there is no
\* shape.
C22_OneShapePerElementInOrder ==
    svgResult.made =>
        /\ Len(svgResult.nodes) = 2 + Len(svgResult.elements)
        /\ svgResult.nodes[1] = [tag |-> "svg", id |-> 0]
        /\ svgResult.nodes[2] = [tag |-> "rect", id |-> 0]
        /\ \A n \in 1..Len(svgResult.elements) :
              /\ svgResult.nodes[n + 2].tag = PrimitiveOf(svgResult.elements[n].type)
              /\ svgResult.nodes[n + 2].id = svgResult.elements[n].id
              /\ svgResult.shapes[n].tag = PrimitiveOf(svgResult.elements[n].type)
              /\ svgResult.shapes[n].attributes.id = svgResult.elements[n].id
        /\ svgResult.elements = << >> =>
              Cardinality({k \in 1..Len(svgResult.nodes) : svgResult.nodes[k].tag = "rect"}) = 1

\* the SVG of a document whose first element is an image and whose second
\* element is a rectangle
C22_Witness ==
    /\ svgResult.made
    /\ Len(svgResult.elements) = 2
    /\ svgResult.elements[1].type = "image"
    /\ svgResult.elements[2].type = "rectangle"
    /\ svgResult.nodes[3].tag = "image"
    /\ svgResult.nodes[4].tag = "rect"
    /\ drawn = svgResult.elements

C24_SaveFailuresAreContained ==
    [][ lastSave'.n # lastSave.n =>
          /\ lastSave'.outcome = "cancelled" => UNCHANGED <<written, notice>>
          /\ lastSave'.outcome = "failed" => notice' = "Failed to save design"
          /\ lastSave'.outcome \in {"cancelled", "failed"} =>
                /\ Len(saves') = Len(saves) - 1
                /\ UNCHANGED <<panel, panels, pendingRequest, requests, invs, microtasks>>
      ]_vars

\* a save failed at its first write while a sketch request was pending and
\* the panel was open
C24_Witness ==
    /\ lastSave.outcome = "failed"
    /\ lastSave.wrote = << >>
    /\ notice = "Failed to save design"
    /\ panel # 0
    /\ pendingRequest # NoRequest
    /\ saves = << >>

\* C25: a rectangle contains (px, py) exactly when x <= px <= x + width and
\* y <= py <= y + height, the border included; the rectangle
\* {x 10, y 10, width 100, height 50} contains (50, 30) and (10, 10) and does
\* not contain (200, 30).
C25_RectangleContainsPoint ==
    (hitResult.made /\ hitResult.shape.type = "rectangle") =>
        /\ hitResult.hit <=>
              /\ hitResult.shape.x <= hitResult.px
              /\ hitResult.px <= hitResult.shape.x + hitResult.shape.width
              /\ hitResult.shape.y <= hitResult.py
              /\ hitResult.py <= hitResult.shape.y + hitResult.shape.height
        /\ hitResult.shape = Shape("rectangle", 10, 10, 0, 100, 50, 0, 0, 0, 2) =>
              /\ <<hitResult.px, hitResult.py>> \in {<<50, 30>>, <<10, 10>>} => hitResult.hit
              /\ <<hitResult.px, hitResult.py>> = <<200, 30>> => ~hitResult.hit

\* the corner (10, 10) of the rectangle {x 10, y 10, width 100, height 50} was
\* tested and is inside
C25_Witness ==
    /\ hitResult.made
    /\ hitResult.shape = Shape("rectangle", 10, 10, 0, 100, 50, 0, 0, 0, 2)
    /\ <<hitResult.px, hitResult.py>> = <<10, 10>>
    /\ hitResult.hit

\* the point is within tol of the segment of line l: measured to the start
\* point when its projection falls before the start or the line has no
\* length, to the end point when it falls behind the end, and to the line
\* otherwise (the cross product is the distance times the length)
WithinOfSegment(l, px, py, tol) ==
    LET dx == l.x2 - l.x
        dy == l.y2 - l.y
        lengthSq == dx * dx + dy * dy
        dot == (px - l.x) * dx + (py - l.y) * dy
        cross == (px - l.x) * dy - (py - l.y) * dx
    IN IF lengthSq = 0 \/ dot <= 0
       THEN (px - l.x) * (px - l.x) + (py - l.y) * (py - l.y) <= tol * tol
       ELSE IF dot >= lengthSq
       THEN (px - l.x2) * (px - l.x2) + (py - l.y2) * (py - l.y2) <= tol * tol
       ELSE cross * cross <= tol * tol * lengthSq

\* C26: a line contains (px, py) exactly when the distance from the point to
\* the segment is at most max(2 * strokeWidth, 10); the line
\* {x 0, y 0, x2 100, y2 0, strokeWidth 2} contains (50, 0) and (50, 9) and
\* does not contain (50, 11) and (50, 20).
C26_LineContainsPoint ==
    (hitResult.made /\ hitResult.shape.type = "line") =>
        /\ hitResult.hit <=>
              WithinOfSegment(hitResult.shape, hitResult.px, hitResult.py,
                              IF 2 * hitResult.shape.strokeWidth >= 10
                              THEN 2 * hitResult.shape.strokeWidth ELSE 10)
        /\ hitResult.shape = Shape("line", 0, 0, 0, 0, 0, 0, 100, 0, 2) =>
              /\ <<hitResult.px, hitResult.py>> \in {<<50, 0>>, <<50, 9>>} => hitResult.hit
              /\ <<hitResult.px, hitResult.py>> \in {<<50, 11>>, <<50, 20>>} => ~hitResult.hit

\* a point 15 beyond the end of the line {x 0, y 0, x2 100, y2 0} and on its
\* prolongation was tested and is not a hit
C26_Witness ==
    /\ hitResult.made
    /\ hitResult.shape = Shape("line", 0, 0, 0, 0, 0, 0, 100, 0, 2)
    /\ <<hitResult.px, hitResult.py>> = <<115, 0>>
    /\ ~hitResult.hit

\* C31 as stated: askUser calls that are outstanding together on one page have
\* pairwise distinct requestIds, and every outstanding call still has its own
\* resolver stored under its requestId: a later askUser never replaced it.
C31_OutstandingAsksKeepTheirResolver ==
    /\ \A k, j \in AskIds :
           (k # j /\ AskWaiting(k) /\ AskWaiting(j) /\ asks[k].surface = asks[j].surface)
               => asks[k].requestId # asks[j].requestId
    /\ \A k \in AskIds :
           AskWaiting(k) => askTable[asks[k].surface][asks[k].requestId] = k

\* C32 as stated: a host message that reaches the booted page of a live panel
\* is handled once: a loadDesign message makes one LoadDesign call, an
\* exportDesign message starts one export, and each export posts one
\* exportResult to the host.
C32_EachHostMessageHandledOnce ==
    [][ /\ (/\ toSurface # << >>
            /\ toSurface' = Tail(toSurface)
            /\ panels[Head(toSurface).panel] = "live"
            /\ surface[Head(toSurface).panel].state = "ready") =>
               LET m == Head(toSurface) IN
                  /\ m.type = "loadDesign" => pageLoads'[m.panel] = pageLoads[m.panel] + 1
                  /\ m.type = "exportDesign" => pageExports'[m.panel] = pageExports[m.panel] + 1
        /\ \A p \in PanelIds :
               pageExports'[p] < pageExports[p] =>
                  /\ pageExports'[p] = pageExports[p] - 1
                  /\ Len(toHost') = Len(toHost) + 1
                  /\ toHost'[Len(toHost')].type = "exportResult"
      ]_vars

\* the element EnterView finds for a name: the first View element so named
FirstView(name) ==
    Document.elements[CHOOSE n \in 1..Len(Document.elements) :
        /\ Document.elements[n].name = name /\ Document.elements[n].meaning = "View"
        /\ \A m \in 1..(n - 1) :
              ~(Document.elements[m].name = name /\ Document.elements[m].meaning = "View")]

\* C33 as stated: the breadcrumb is the chain of ancestors of the current
\* view: it never contains the current view context, it contains no name
\* twice, and a successful enterView enters a view whose parent is the context
\* it is entered from, so that the entry it pushes is the parent of the new
\* current view.
C33_BreadcrumbIsAncestorChain ==
    /\ [] (\A n \in 1..Len(ViewBreadcrumb) : ViewBreadcrumb[n] # CurrentViewContext)
    /\ [] (\A n, m \in 1..Len(ViewBreadcrumb) : n # m => ViewBreadcrumb[n] # ViewBreadcrumb[m])
    /\ [][ (CallEnterView /\ ViewExists(lastOp'.name)) =>
              FirstView(lastOp'.name).parent = CurrentViewContext
       ]_vars

\* C34 as stated: when a handleConfirmSketch call ends whose confirmSketch
\* message was received while a sketch request was pending, that request is
\* resolved with success true and the sketch of the message, and the panel the
\* message came from is disposed, whichever way the save step went.
C34_ConfirmCompletesPendingRequest ==
    [][ lastConfirm'.n # lastConfirm.n =>
           \E k \in 1..Len(confirms) :
              /\ confirms' = RemoveAt(confirms, k)
              /\ confirms[k].slotAtReceipt # 0 =>
                    /\ requests'[confirms[k].slotAtReceipt].state = "resolved"
                    /\ requests'[confirms[k].slotAtReceipt].value =
                          SuccessResult(confirms[k].msg.title, confirms[k].msg.svg,
                                        confirms[k].msg.json)
                    /\ panels'[confirms[k].msg.panel] = "disposed"
      ]_vars

\* C35: from every reachable state of the service, an EnterView(v) that finds
\* its view, followed at once by ExitToParentView(), ends with the view
\* context and the breadcrumb the service had before the EnterView.
C35_EnterThenExitRestores ==
    \A v \in ViewNames :
        HasView(Service, v) =>
            /\ EnterView(Service, v, clock).CurrentViewContext = v
            /\ ExitToParentView(EnterView(Service, v, clock), clock).CurrentViewContext
                   = CurrentViewContext
            /\ ExitToParentView(EnterView(Service, v, clock), clock).ViewBreadcrumb
                   = ViewBreadcrumb

\* C35 witness: the service is inside a view with a breadcrumb behind it, a
\* view can be entered from there, and entering it grows the breadcrumb that
\* the exit then shortens again
C35_Witness ==
    /\ CurrentViewContext # Null
    /\ ViewBreadcrumb # << >>
    /\ HasView(Service, "V")
    /\ Len(EnterView(Service, "V", clock).ViewBreadcrumb) = Len(ViewBreadcrumb) + 1
    /\ ExitToParentView(EnterView(Service, "V", clock), clock).ViewBreadcrumb = ViewBreadcrumb

\* C36: in every reachable state of the service, a breadcrumb that is not
\* empty comes with a view context that is not null.
C36_CrumbsImplyContext ==
    ViewBreadcrumb # << >> => CurrentViewContext # Null

\* C36 witness: views were entered until the breadcrumb held two entries
C36_Witness ==
    /\ lastOp.op = "EnterView"
    /\ Len(ViewBreadcrumb) = 2
    /\ CurrentViewContext # Null
====
